---------------------------- MODULE Spec2Model ----------------------------
(***************************************************************************)
(* Verification model of the PiTrac launch-monitor IPC bus                 *)
(* (ZeroMQPublisher, ZeroMQSubscriber, GolfSimIpcSystem).                  *)
(*                                                                         *)
(* Strings are sequences of one-character strings, so that formatting and  *)
(* parsing are computed character by character as the code does.  A frame  *)
(* on the socket is a record [kind, raw]: kind "text" holds characters,  *)
(* kind "msgpack" holds the elements a msgpack buffer is made of.          *)
(***************************************************************************)
EXTENDS Integers, Sequences, FiniteSets, TLC

(***************************************************************************)
(* Bounds of the model.                                                    *)
(***************************************************************************)
\* How many calls of the bus's clients, messages of other systems and faults
\* of the transport one run holds.
MaxCalls == 4

(***************************************************************************)
(* Characters and strings.                                                 *)
(***************************************************************************)
\* The characters the model uses, in ASCII order.
AsciiOrder ==
  << " ", "\"", "+", ",", "-", ".",
     "0", "1", "2", "3", "4", "5", "6", "7", "8", "9", ":",
     "A", "B", "C", "D", "E", "F", "G", "H", "I", "J", "K", "L", "M",
     "N", "O", "P", "Q", "R", "S", "T", "U", "V", "W", "X", "Y", "Z", "_",
     "a", "b", "c", "d", "e", "f", "g", "h", "i", "j", "k", "l", "m",
     "n", "o", "p", "q", "r", "s", "t", "u", "v", "w", "x", "y", "z",
     "{", "}" >>

Ord(c) == CHOOSE i \in 1..Len(AsciiOrder) : AsciiOrder[i] = c

Digits == <<"0", "1", "2", "3", "4", "5", "6", "7", "8", "9">>

IsDigit(c) == \E i \in 1..10 : Digits[i] = c

DigitVal(c) == (CHOOSE i \in 1..10 : Digits[i] = c) - 1

\* std::isspace restricted to the model's characters.
IsSpace(c) == c = " "

\* std::string operator< (lexicographic, by character code).
RECURSIVE StrLess(_, _)
StrLess(a, b) ==
  IF b = <<>> THEN FALSE
  ELSE IF a = <<>> THEN TRUE
  ELSE IF Head(a) = Head(b) THEN StrLess(Tail(a), Tail(b))
  ELSE Ord(Head(a)) < Ord(Head(b))

\* std::string::find(ch, pos): the first index >= pos holding ch, 0 for npos.
RECURSIVE FindChar(_, _, _)
FindChar(s, ch, pos) ==
  IF pos > Len(s) THEN 0
  ELSE IF s[pos] = ch THEN pos
  ELSE FindChar(s, ch, pos + 1)

RECURSIVE NatToString(_)
NatToString(n) ==
  IF n < 10 THEN <<Digits[n + 1]>>
  ELSE NatToString(n \div 10) \o <<Digits[(n % 10) + 1]>>

\* std::to_string of an integer.
IntToString(n) == IF n < 0 THEN <<"-">> \o NatToString(-n) ELSE NatToString(n)

IntMax == 2147483647

RECURSIVE SkipSpaces(_, _)
SkipSpaces(s, pos) ==
  IF pos <= Len(s) /\ IsSpace(s[pos]) THEN SkipSpaces(s, pos + 1) ELSE pos

RECURSIVE DigitRun(_, _, _)
DigitRun(s, pos, acc) ==
  IF pos <= Len(s) /\ IsDigit(s[pos])
  THEN DigitRun(s, pos + 1, acc * 10 + DigitVal(s[pos]))
  ELSE [val |-> acc, next |-> pos]

\* std::stoi / std::stoll: leading white space, an optional sign, then digits;
\* what follows the digits is ignored.  ok = FALSE stands for the exception
\* (std::invalid_argument without digits, std::out_of_range beyond limit).
StrToInteger(s, limit) ==
  LET p0 == SkipSpaces(s, 1)
      neg == p0 <= Len(s) /\ s[p0] = "-"
      p1 == IF p0 <= Len(s) /\ s[p0] \in {"-", "+"} THEN p0 + 1 ELSE p0
      run == DigitRun(s, p1, 0)
      v == IF neg THEN -run.val ELSE run.val
  IN IF run.next = p1 THEN [ok |-> FALSE, val |-> 0]
     ELSE IF v > limit \/ v < -limit - 1 THEN [ok |-> FALSE, val |-> 0]
     ELSE [ok |-> TRUE, val |-> v]

Stoi(s) == StrToInteger(s, IntMax)

(***************************************************************************)
(* The header frame: a flat {"key":"value",...} object.                    *)
(***************************************************************************)
EmptyMap == [k \in {} |-> <<>>]

\* std::map operator[] assignment.
MapPut(m, k, v) == (k :> v) @@ m

\* The keys of a std::map in iteration (ascending) order.
RECURSIVE SortedKeys(_)
SortedKeys(keys) ==
  IF keys = {} THEN <<>>
  ELSE LET least == CHOOSE k \in keys : \A o \in keys \ {k} : StrLess(k, o)
       IN <<least>> \o SortedKeys(keys \ {least})

RECURSIVE JoinPairs(_, _, _)
JoinPairs(props, keys, first) ==
  IF keys = <<>> THEN <<>>
  ELSE (IF first THEN <<>> ELSE <<",">>)
       \o <<"\"">> \o Head(keys) \o <<"\"", ":", "\"">> \o props[Head(keys)] \o <<"\"">>
       \o JoinPairs(props, Tail(keys), FALSE)

\* The text PublisherThread builds from msg.properties.
PropsStr(props) ==
  <<"{">> \o JoinPairs(props, SortedKeys(DOMAIN props), TRUE) \o <<"}">>

RECURSIVE SkipSpacesAnd(_, _, _)
SkipSpacesAnd(s, pos, ch) ==
  IF pos <= Len(s) /\ (IsSpace(s[pos]) \/ s[pos] = ch)
  THEN SkipSpacesAnd(s, pos + 1, ch) ELSE pos

RECURSIVE LastNonSpace(_, _)
LastNonSpace(s, pos) ==
  IF pos >= 1 /\ IsSpace(s[pos]) THEN LastNonSpace(s, pos - 1) ELSE pos

\* A parser that stops after the first pair.
ParsePairs_FirstOnly(content, pos, props) ==
  LET p1 == SkipSpaces(content, pos)
      key_end == FindChar(content, "\"", p1 + 1)
      p2 == SkipSpacesAnd(content, key_end + 1, ":")
      value_end == FindChar(content, "\"", p2 + 1)
  IN IF p1 > Len(content) \/ content[p1] # "\"" \/ key_end = 0 THEN props
     ELSE IF p2 > Len(content) \/ content[p2] # "\"" \/ value_end = 0 THEN props
     ELSE MapPut(props, SubSeq(content, p1 + 1, key_end - 1),
                 SubSeq(content, p2 + 1, value_end - 1))
\* The while loop of ParseProperties over the text between the braces.
RECURSIVE ParsePairs(_, _, _)
ParsePairs(content, pos, props) ==
  LET p1 == SkipSpaces(content, pos)
  IN IF p1 > Len(content) THEN props
     ELSE IF content[p1] # "\"" THEN props
     ELSE LET key_end == FindChar(content, "\"", p1 + 1)
          IN IF key_end = 0 THEN props
             ELSE LET key == SubSeq(content, p1 + 1, key_end - 1)
                      p2 == SkipSpacesAnd(content, key_end + 1, ":")
                  IN IF p2 > Len(content) \/ content[p2] # "\"" THEN props
                     ELSE LET value_end == FindChar(content, "\"", p2 + 1)
                          IN IF value_end = 0 THEN props
                             ELSE ParsePairs(content,
                                    SkipSpacesAnd(content, value_end + 1, ","),
                                    MapPut(props, key,
                                           SubSeq(content, p2 + 1, value_end - 1)))

\* ZeroMQSubscriber::ParseProperties on the characters of the header frame.
ParseText(json_str) ==
  LET start == SkipSpaces(json_str, 1)
      end == LastNonSpace(json_str, Len(json_str))
      trimmed == SubSeq(json_str, start, end)
  IN IF json_str = <<>> \/ start > Len(json_str) THEN EmptyMap
     ELSE IF Len(trimmed) < 2 \/ trimmed[1] # "{" \/ trimmed[Len(trimmed)] # "}"
          THEN EmptyMap
     ELSE IF trimmed = <<"{", "}">> THEN EmptyMap
     ELSE ParsePairs(SubSeq(trimmed, 2, Len(trimmed) - 1), 1, EmptyMap)

\* A frame is the pair <<kind, raw>>.
TextFrame(chars) == <<"text", chars>>
PackedFrame(buf) == <<"msgpack", buf>>
Kind(frame) == frame[1]
Raw(frame) == frame[2]

\* ParseProperties applied to a received frame.  A msgpack buffer starts with
\* an array marker byte, which is neither white space nor an opening brace.
ParseProperties(frame) ==
  IF Kind(frame) = "text" THEN ParseText(Raw(frame)) ELSE EmptyMap

(***************************************************************************)
(* Message types, control codes, frames (cv::Mat) and IPC messages.        *)
(***************************************************************************)
\* GolfSimIPCMessage::IPCMessageType
kUnknown == 0
kCamera2Image == 1
kCamera2ReturnPreImage == 2
kShutdown == 3
kRequestForCamera2Image == 4
kResults == 5
kControlMessage == 6

MessageTypes ==
  {kUnknown, kCamera2Image, kCamera2ReturnPreImage, kShutdown,
   kRequestForCamera2Image, kResults, kControlMessage}

\* GsIPCControlMsgType
kControlUnknown == 0
kClubChangeToPutter == 1
kClubChangeToDriver == 2

ControlTypes == {kClubChangeToPutter, kClubChangeToDriver}

\* OpenCV pixel types: CV_8UC1 and CV_8UC3.
CV_8UC1 == 0
CV_8UC3 == 16

\* cv::Mat::elemSize() for a pixel type: channels times the size of the depth.
ElemSize(type) ==
  LET depth == type % 8
      cn == (type \div 8) + 1
      size == <<1, 1, 2, 2, 4, 4, 8, 2>>
  IN cn * size[depth + 1]

EmptyMat == [rows |-> 0, cols |-> 0, type |-> CV_8UC1, data |-> <<>>]

\* cv::Mat::total() * cv::Mat::elemSize()
MatBytes(mat) == mat.rows * mat.cols * ElemSize(mat.type)

\* GolfSimIPCMessage::SetImageMat: the message keeps its own copy of the
\* pixels, rows * cols * elemSize bytes read from the wrapped buffer.  Bytes
\* past the end of the buffer are whatever the memory holds (garbage).
SetImageMat(rows, cols, type, buffer, garbage) ==
  [rows |-> rows, cols |-> cols, type |-> type,
   data |-> [i \in 1..(rows * cols * ElemSize(type)) |->
               IF i <= Len(buffer) THEN buffer[i] ELSE garbage]]

\* GolfSimIPCMessage(message_type)
NewIpcMessage(type) ==
  [type |-> type, image |-> EmptyMat, control |-> kControlUnknown]

ImageMessage(type, mat) == [NewIpcMessage(type) EXCEPT !.image = mat]

ControlMessage(code) == [NewIpcMessage(kControlMessage) EXCEPT !.control = code]

(***************************************************************************)
(* The msgpack body.  A buffer is the sequence of its elements in prefix    *)
(* order: an array or map element announces how many objects follow it.    *)
(***************************************************************************)
\* An element is the pair <<type, value>>.
MpInt(v) == <<"int", v>>
MpStr(s) == <<"str", s>>
MpBin(b) == <<"bin", b>>
MpArr(n) == <<"array", n>>
MpMap(n) == <<"map", n>>
MpType(e) == e[1]
MpVal(e) == e[2]

\* MSGPACK_DEFINE(message_type, timestamp_ms, system_id)
PackHeader(h) ==
  <<MpArr(3), MpInt(h.message_type), MpInt(h.timestamp_ms), MpStr(h.system_id)>>

\* MSGPACK_DEFINE(header, image_data, image_rows, image_cols, image_type)
PackImage(m) ==
  <<MpArr(5)>> \o PackHeader(m.header)
  \o <<MpBin(m.image_data), MpInt(m.image_rows), MpInt(m.image_cols),
       MpInt(m.image_type)>>

\* MSGPACK_DEFINE(header, control_type)
PackControl(m) == <<MpArr(2)>> \o PackHeader(m.header) \o <<MpInt(m.control_type)>>

\* MSGPACK_DEFINE(header, result_data), result_data = {"type": "results"}
PackResult(m) ==
  <<MpArr(2)>> \o PackHeader(m.header)
  \o <<MpMap(1), MpStr(<<"t", "y", "p", "e">>),
       MpStr(<<"r", "e", "s", "u", "l", "t", "s">>)>>

\* MSGPACK_DEFINE(header)
PackSimple(m) == <<MpArr(1)>> \o PackHeader(m.header)

\* The index after the object that starts at pos; 0 when the buffer ends
\* inside it (msgpack::insufficient_bytes).
RECURSIVE ObjEnd(_, _), SkipObjs(_, _, _)
ObjEnd(buf, pos) ==
  IF pos = 0 \/ pos > Len(buf) THEN 0
  ELSE IF MpType(buf[pos]) = "array" THEN SkipObjs(buf, pos + 1, MpVal(buf[pos]))
  ELSE IF MpType(buf[pos]) = "map" THEN SkipObjs(buf, pos + 1, 2 * MpVal(buf[pos]))
  ELSE pos + 1

SkipObjs(buf, pos, n) ==
  IF n = 0 \/ pos = 0 THEN pos ELSE SkipObjs(buf, ObjEnd(buf, pos), n - 1)

\* The index of element i (from 1) of the array that starts at pos.
ElemPos(buf, pos, i) == SkipObjs(buf, pos + 1, i - 1)

\* msgpack::unpack followed by convert to a MSGPACK_DEFINE struct: the root
\* object must be complete and an array.  A text frame read as msgpack starts
\* with a positive fixint (or is empty), so it never converts.
UnpackArray(frame) ==
  IF Kind(frame) # "msgpack" THEN [ok |-> FALSE, n |-> 0]
  ELSE IF ObjEnd(Raw(frame), 1) = 0 THEN [ok |-> FALSE, n |-> 0]
  ELSE IF MpType(Raw(frame)[1]) # "array" THEN [ok |-> FALSE, n |-> 0]
  ELSE [ok |-> TRUE, n |-> MpVal(Raw(frame)[1])]

\* Member i of a struct converted from the array at pos: an array shorter than
\* the struct leaves the member as constructed (dflt); an element of another
\* type raises msgpack::type_error (ok = FALSE).
ConvertMember(buf, pos, i, types, dflt) ==
  IF i > MpVal(buf[pos]) THEN [ok |-> TRUE, v |-> dflt]
  ELSE LET e == buf[ElemPos(buf, pos, i)]
       IN IF MpType(e) \in types THEN [ok |-> TRUE, v |-> MpVal(e)]
          ELSE [ok |-> FALSE, v |-> dflt]

\* convert(ZeroMQMessageHeader&) of the object at pos.
ConvertHeader(buf, pos, garbage) ==
  IF MpType(buf[pos]) # "array"
  THEN [ok |-> FALSE, message_type |-> garbage, timestamp_ms |-> garbage,
        system_id |-> <<>>]
  ELSE LET mt == ConvertMember(buf, pos, 1, {"int"}, garbage)
           ts == ConvertMember(buf, pos, 2, {"int"}, garbage)
           id == ConvertMember(buf, pos, 3, {"str", "bin"}, <<>>)
       IN [ok |-> mt.ok /\ ts.ok /\ id.ok, message_type |-> mt.v,
           timestamp_ms |-> ts.v, system_id |-> id.v]

\* The header member of a body: element 1 of the root array, when present.
ConvertBodyHeader(buf, n, garbage) ==
  IF n = 0
  THEN [ok |-> TRUE, message_type |-> garbage, timestamp_ms |-> garbage,
        system_id |-> <<>>]
  ELSE ConvertHeader(buf, 2, garbage)

\* convert(ZeroMQImageMessage&)
ConvertImage(frame, garbage) ==
  LET u == UnpackArray(frame)
      buf == Raw(frame)
      h == ConvertBodyHeader(buf, u.n, garbage)
      d == ConvertMember(buf, 1, 2, {"bin", "str"}, <<>>)
      r == ConvertMember(buf, 1, 3, {"int"}, garbage)
      c == ConvertMember(buf, 1, 4, {"int"}, garbage)
      t == ConvertMember(buf, 1, 5, {"int"}, garbage)
  IN IF ~u.ok THEN [ok |-> FALSE]
     ELSE IF ~(h.ok /\ d.ok /\ r.ok /\ c.ok /\ t.ok) THEN [ok |-> FALSE]
     ELSE [ok |-> TRUE, header |-> h, image_data |-> d.v, image_rows |-> r.v,
           image_cols |-> c.v, image_type |-> t.v]

\* convert(ZeroMQControlMessage&)
ConvertControl(frame, garbage) ==
  LET u == UnpackArray(frame)
      buf == Raw(frame)
      h == ConvertBodyHeader(buf, u.n, garbage)
      c == ConvertMember(buf, 1, 2, {"int"}, garbage)
  IN IF ~u.ok THEN [ok |-> FALSE]
     ELSE IF ~(h.ok /\ c.ok) THEN [ok |-> FALSE]
     ELSE [ok |-> TRUE, header |-> h, control_type |-> c.v]

\* convert(ZeroMQResultMessage&)
ConvertResult(frame, garbage) ==
  LET u == UnpackArray(frame)
      buf == Raw(frame)
      h == ConvertBodyHeader(buf, u.n, garbage)
      m == ConvertMember(buf, 1, 2, {"map"}, 0)
  IN IF ~u.ok THEN [ok |-> FALSE]
     ELSE IF ~(h.ok /\ m.ok) THEN [ok |-> FALSE]
     ELSE [ok |-> TRUE, header |-> h]

(***************************************************************************)
(* GolfSimIpcSystem: constants, serialization and dispatch.                *)
(***************************************************************************)
kGolfSimTopicPrefix == <<"G", "o", "l", "f", ".", "S", "i", "m">>
kGolfSimMessageTopic == kGolfSimTopicPrefix \o <<".", "M", "e", "s", "s", "a", "g", "e">>
kGolfSimResultsTopic == kGolfSimTopicPrefix \o <<".", "R", "e", "s", "u", "l", "t", "s">>
kGolfSimControlTopic == kGolfSimTopicPrefix \o <<".", "C", "o", "n", "t", "r", "o", "l">>

kZeroMQSystemIdProperty == <<"S", "y", "s", "t", "e", "m", "_", "I", "D">>
kZeroMQMessageTypeProperty ==
  <<"M", "e", "s", "s", "a", "g", "e", "_", "T", "y", "p", "e">>
kZeroMQTimestampProperty == <<"T", "i", "m", "e", "s", "t", "a", "m", "p">>


GetTopicForMessageType(type) ==
  IF type = kResults THEN kGolfSimResultsTopic
  ELSE IF type = kControlMessage THEN kGolfSimControlTopic
  ELSE kGolfSimMessageTopic

\* std::stoll.  The model checker's integers are 32 bits wide, so the 64-bit limit
\* is out of reach; the model's clock values stay far below both limits.
Stoll(s) == StrToInteger(s, IntMax)

\* The envelope header SerializeIpcMessageToZeroMQ fills in.
SerializeProperties(ipc_message, system_id, now) ==
  MapPut(MapPut(MapPut(EmptyMap,
    kZeroMQSystemIdProperty, system_id),
    kZeroMQMessageTypeProperty, IntToString(ipc_message.type)),
    kZeroMQTimestampProperty, IntToString(now))

\* The ZeroMQMessageHeader copied into the body.
SerializeHeader(ipc_message, properties, system_id) ==
  [message_type |-> ipc_message.type,
   timestamp_ms |-> Stoll(properties[kZeroMQTimestampProperty]).val,
   system_id |-> system_id]

\* An image body with rows and cols in each other's place.
SerializeImageBody_Swapped(ipc_message, header) ==
  LET image == ipc_message.image
  IN PackImage([header |-> header,
                image_rows |-> image.cols,
                image_cols |-> image.rows,
                image_type |-> image.type,
                image_data |-> SubSeq(image.data, 1, MatBytes(image))])

\* image_data: total() * elemSize() bytes copied from image.data.
SerializeImageBody(ipc_message, header) ==
  LET image == ipc_message.image
  IN PackImage([header |-> header,
                image_rows |-> image.rows,
                image_cols |-> image.cols,
                image_type |-> image.type,
                image_data |-> SubSeq(image.data, 1, MatBytes(image))])

SerializeBody(ipc_message, header) ==
  IF ipc_message.type \in {kCamera2Image, kCamera2ReturnPreImage}
  THEN SerializeImageBody(ipc_message, header)
  ELSE IF ipc_message.type = kControlMessage
  THEN PackControl([header |-> header, control_type |-> ipc_message.control])
  ELSE IF ipc_message.type = kResults
  THEN PackResult([header |-> header])
  ELSE PackSimple([header |-> header])

\* SerializeIpcMessageToZeroMQ up to its second read of system_id_: the topic
\* and the envelope header are filled in, the data is still empty.
SerializeEnvelope(ipc_message, system_id, now) ==
  [topic |-> GetTopicForMessageType(ipc_message.type),
   data |-> PackedFrame(<<>>),
   properties |-> SerializeProperties(ipc_message, system_id, now)]

\* SerializeIpcMessageToZeroMQ from its second read of system_id_ on: the
\* body is packed into the data.
SerializeData(ipc_message, envelope, system_id) ==
  [envelope EXCEPT !.data = PackedFrame(SerializeBody(ipc_message,
                      SerializeHeader(ipc_message, envelope.properties, system_id)))]

\* SerializeIpcMessageToZeroMQ with no write of system_id_ during the call:
\* the topic, data and properties handed to ZeroMQPublisher::SendMessage.
SerializeIpcMessageToZeroMQ(ipc_message, system_id, now) ==
  SerializeData(ipc_message, SerializeEnvelope(ipc_message, system_id, now), system_id)

NoMessage == [ok |-> FALSE, leaked |-> FALSE, msg |-> NewIpcMessage(kUnknown)]

\* The image branch of BuildIpcMessageFromZeroMQData.  A negative size makes
\* the cv::Mat constructor raise; an exception after `new` returns nullptr
\* without deleting the message.
BuildImage(type, data, garbage) ==
  LET img_msg == ConvertImage(data, garbage)
  IN IF ~img_msg.ok \/ img_msg.image_rows < 0 \/ img_msg.image_cols < 0
     THEN [NoMessage EXCEPT !.leaked = TRUE]
     ELSE [ok |-> TRUE, leaked |-> FALSE,
           msg |-> ImageMessage(type,
                     SetImageMat(img_msg.image_rows, img_msg.image_cols,
                                 img_msg.image_type, img_msg.image_data, garbage))]

BuildControl(data, garbage) ==
  LET ctrl_msg == ConvertControl(data, garbage)
  IN IF ~ctrl_msg.ok THEN [NoMessage EXCEPT !.leaked = TRUE]
     ELSE [ok |-> TRUE, leaked |-> FALSE, msg |-> ControlMessage(ctrl_msg.control_type)]

BuildResults(data, garbage) ==
  IF ~ConvertResult(data, garbage).ok THEN [NoMessage EXCEPT !.leaked = TRUE]
  ELSE [ok |-> TRUE, leaked |-> FALSE, msg |-> NewIpcMessage(kResults)]

\* BuildIpcMessageFromZeroMQData: ok = FALSE stands for nullptr.
BuildIpcMessageFromZeroMQData(data, properties, garbage) ==
  IF kZeroMQMessageTypeProperty \notin DOMAIN properties THEN NoMessage
  ELSE LET parsed == Stoi(properties[kZeroMQMessageTypeProperty])
           message_type == parsed.val
       IN IF ~parsed.ok THEN NoMessage
          ELSE IF message_type = kUnknown THEN NoMessage
          ELSE IF message_type \in {kCamera2Image, kCamera2ReturnPreImage}
          THEN BuildImage(message_type, data, garbage)
          ELSE IF message_type = kControlMessage THEN BuildControl(data, garbage)
          ELSE IF message_type = kResults THEN BuildResults(data, garbage)
          ELSE [ok |-> TRUE, leaked |-> FALSE, msg |-> NewIpcMessage(message_type)]

\* SystemMode
SystemModes ==
  {"kCamera1", "kCamera1TestStandalone", "kCamera2", "kCamera2TestStandalone",
   "kCamera1AutoCalibrate", "kCamera2AutoCalibrate", "kCamera1BallLocation",
   "kCamera2BallLocation", "kRunCam2ProcessForPi1Processing", "kTest"}

Event(name, mat, code) == [e |-> name, mat |-> mat, code |-> code]

\* What a dispatcher does: its return value, the events it queues, and the
\* frame it stores in last_received_image_ (save = TRUE).  created and
\* released count the GolfSimIPCMessage objects made by `new` and passed to
\* `delete` during the call.
Dispatched(result, events) ==
  [result |-> result, events |-> events, save |-> FALSE, image |-> EmptyMat,
   created |-> 0, released |-> 0]

\* A shutdown dispatcher that queues nothing.
DispatchShutdownMessage_Quiet(message) == Dispatched(TRUE, <<>>)

DispatchShutdownMessage(message) ==
  Dispatched(TRUE, <<Event("Exit", EmptyMat, 0)>>)

DispatchResultsMessage(message) == Dispatched(TRUE, <<>>)

\* A control dispatcher that does not pass the control code on.
DispatchControlMsgMessage_NoCode(message) ==
  Dispatched(TRUE, <<Event("ControlMessage", EmptyMat, kControlUnknown)>>)

DispatchControlMsgMessage(message) ==
  Dispatched(TRUE, <<Event("ControlMessage", EmptyMat, message.control)>>)

\* A request dispatcher that arms camera 2 in mode kCamera2 only.
DispatchRequestForCamera2ImageMessage_Cam2Only(message, mode) ==
  IF mode = "kCamera2"
  THEN Dispatched(TRUE, <<Event("ArmCamera2MessageReceived", EmptyMat, 0)>>)
  ELSE Dispatched(TRUE, <<>>)

DispatchRequestForCamera2ImageMessage(message, mode) ==
  IF mode \in {"kCamera1", "kCamera1TestStandalone"} THEN Dispatched(TRUE, <<>>)
  ELSE IF mode \in {"kCamera2", "kCamera2TestStandalone",
                    "kRunCam2ProcessForPi1Processing"}
  THEN Dispatched(TRUE, <<Event("ArmCamera2MessageReceived", EmptyMat, 0)>>)
  ELSE IF mode \in {"kCamera1AutoCalibrate", "kCamera2AutoCalibrate"}
  THEN Dispatched(TRUE, <<>>)
  ELSE Dispatched(FALSE, <<>>)

\* An image dispatcher whose event does not carry the frame.
DispatchCamera2ImageMessage_NoFrame(message, mode, still) ==
  IF still \/ mode \in {"kCamera1AutoCalibrate", "kCamera2AutoCalibrate",
                        "kCamera1BallLocation", "kCamera2BallLocation"}
  THEN [Dispatched(TRUE, <<>>) EXCEPT !.save = TRUE, !.image = message.image]
  ELSE IF mode \in {"kCamera2", "kCamera2TestStandalone"} THEN Dispatched(TRUE, <<>>)
  ELSE IF mode \in {"kCamera1TestStandalone", "kCamera1"}
  THEN Dispatched(TRUE, <<Event("Camera2ImageReceived", EmptyMat, 0)>>)
  ELSE Dispatched(FALSE, <<>>)

DispatchCamera2ImageMessage(message, mode, still) ==
  IF still \/ mode \in {"kCamera1AutoCalibrate", "kCamera2AutoCalibrate",
                        "kCamera1BallLocation", "kCamera2BallLocation"}
  THEN [Dispatched(TRUE, <<>>) EXCEPT !.save = TRUE, !.image = message.image]
  ELSE IF mode \in {"kCamera2", "kCamera2TestStandalone"} THEN Dispatched(TRUE, <<>>)
  ELSE IF mode \in {"kCamera1TestStandalone", "kCamera1"}
  THEN Dispatched(TRUE, <<Event("Camera2ImageReceived", message.image, 0)>>)
  ELSE Dispatched(FALSE, <<>>)

DispatchCamera2PreImageMessage(message, mode) ==
  IF mode \in {"kCamera2", "kCamera2TestStandalone"} THEN Dispatched(TRUE, <<>>)
  ELSE IF mode \in {"kCamera1TestStandalone", "kCamera1"}
  THEN Dispatched(TRUE, <<Event("Camera2PreImageReceived", message.image, 0)>>)
  ELSE Dispatched(FALSE, <<>>)

\* The switch of DispatchReceivedIpcMessage.
DispatchByType(message, mode, still) ==
  IF message.type = kCamera2Image THEN DispatchCamera2ImageMessage(message, mode, still)
  ELSE IF message.type = kCamera2ReturnPreImage
  THEN DispatchCamera2PreImageMessage(message, mode)
  ELSE IF message.type = kShutdown THEN DispatchShutdownMessage(message)
  ELSE IF message.type = kRequestForCamera2Image
  THEN DispatchRequestForCamera2ImageMessage(message, mode)
  ELSE IF message.type = kResults THEN DispatchResultsMessage(message)
  ELSE IF message.type = kControlMessage THEN DispatchControlMsgMessage(message)
  ELSE Dispatched(FALSE, <<>>)

\* DispatchReceivedIpcMessage: a nullptr from the builder returns false at
\* once; otherwise the one `delete ipc_message` follows the switch.
DispatchReceivedIpcMessage(topic, data, properties, mode, still, garbage) ==
  LET built == BuildIpcMessageFromZeroMQData(data, properties, garbage)
  IN IF ~built.ok
     THEN [Dispatched(FALSE, <<>>) EXCEPT !.created = IF built.leaked THEN 1 ELSE 0]
     ELSE [DispatchByType(built.msg, mode, still) EXCEPT !.created = 1, !.released = 1]

\* A handler that does not compare System_ID with system_id_.
OnMessageReceived_NoCheck(topic, data, properties, system_id, mode, still, garbage) ==
  DispatchReceivedIpcMessage(topic, data, properties, mode, still, garbage)

\* OnMessageReceived: the handler installed on the subscriber.
OnMessageReceived(topic, data, properties, system_id, mode, still, garbage) ==
  IF kZeroMQSystemIdProperty \in DOMAIN properties
     /\ properties[kZeroMQSystemIdProperty] = system_id
  THEN Dispatched(FALSE, <<>>)
  ELSE DispatchReceivedIpcMessage(topic, data, properties, mode, still, garbage)

(***************************************************************************)
(* State.                                                                  *)
(***************************************************************************)
VARIABLES
  \* ZeroMQPublisher
  pub_context,        \* context_ holds a context
  pub_socket,         \* publisher_ holds a socket
  pub_running,        \* running_
  pub_should_stop,    \* should_stop_
  message_queue_,     \* the send queue
  pub_thread,         \* where publisher_thread_ is
  pub_pending,        \* frames sent with sndmore, their last frame not yet sent
  \* ZeroMQSubscriber
  sub_context,        \* context_ holds a context
  sub_socket,         \* subscriber_ holds a socket
  sub_running,        \* running_
  sub_should_stop,    \* should_stop_
  sub_thread,         \* where subscriber_thread_ is
  sub_subscribed,     \* the filters set on the socket
  inbox,              \* multi-part messages waiting in the socket
  message_handler_,
  system_id_to_exclude_,
  topic_filters_,
  \* GolfSimIpcSystem and its host
  publisher_,         \* GolfSimIpcSystem::publisher_ is not null
  subscriber_,        \* GolfSimIpcSystem::subscriber_ is not null
  system_id_,
  initialized_,
  last_received_image_,
  event_queue,        \* GolfSimEventQueue
  system_mode_,
  camera_still_mode_,
  crashed,            \* the process used a destroyed publisher and died
  \* the calling threads
  ctl,                \* the thread that starts and stops the bus
  snd,                \* the thread that sends
  \* history
  wire,               \* every frame put on the publisher socket
  enq_log,            \* every message appended to the send queue
  handled,            \* every invocation of the message handler
  suppressed,         \* how many messages the subscriber dropped for their System_ID
  budget,             \* calls, outside messages and faults still allowed
  \* ONNXRuntimeDetector, one call of Detect
  image,              \* cols and rows of the frame given to Detect
  output_tensor,      \* the rows of the output tensor
  detections,         \* the candidates, as NonMaxSuppression sorted them
  nms_suppressed,     \* NonMaxSuppression's suppressed flags
  result,             \* the detections returned
  det_pc,             \* where the call is
  \* ONNXRuntimeDetector, preprocessing
  resized,            \* the frame after cv::resize: its pixels, each b, g, r
  input_data,         \* the input tensor buffer
  use_neon_preprocessing,
  \* ONNXRuntimeDetector, the calls of Detect and what they share
  session_,           \* session_ holds a session
  memory_pool_,       \* whether there is a pool, and its lease flag
  det_threads,        \* the callers of Detect
  total_inferences_,
  avg_inference_time_ms_,
  inference_times,    \* history: the inference time of every completed call
  \* PreprocessingThreadPool
  tasks_,             \* the task queue: the batch index of each waiting task
  workers_,           \* where each worker thread is, and the task it holds
  batch_pc,           \* where the caller of PreprocessBatch is
  output_buffer       \* what each image's slot of the output buffer holds

pubVars == <<pub_context, pub_socket, pub_running, pub_should_stop, message_queue_,
             pub_thread, pub_pending>>
subVars == <<sub_context, sub_socket, sub_running, sub_should_stop, sub_thread,
             sub_subscribed, inbox, message_handler_, system_id_to_exclude_,
             topic_filters_>>
ipcVars == <<publisher_, subscriber_, system_id_, initialized_, last_received_image_,
             event_queue, system_mode_, camera_still_mode_, crashed>>
histVars == <<wire, enq_log, handled, suppressed, budget>>
poolVars == <<tasks_, workers_, batch_pc, output_buffer>>
prepVars == <<resized, input_data, use_neon_preprocessing, poolVars>>
facadeVars == <<session_, memory_pool_, det_threads, total_inferences_,
                avg_inference_time_ms_, inference_times>>
detVars == <<image, output_tensor, detections, nms_suppressed, result, det_pc,
             prepVars, facadeVars>>
vars == <<pubVars, subVars, ipcVars, ctl, snd, histVars, detVars>>

\* No frame is being preprocessed.
\* A process without a preprocessing pool.
PoolUnused ==
  tasks_ = <<>> /\ workers_ = <<>> /\ batch_pc = "none" /\ output_buffer = <<>>
PreprocessorUnused ==
  /\ resized = <<>> /\ input_data = <<>> /\ use_neon_preprocessing = FALSE
  /\ PoolUnused
\* A detector without session and pool, which nobody calls.
FacadeUnused ==
  /\ session_ = FALSE
  /\ memory_pool_ = [present |-> FALSE, input_in_use |-> FALSE, lessee |-> 0]
  /\ det_threads = <<>> /\ total_inferences_ = 0
  /\ avg_inference_time_ms_ = <<0, 1>> /\ inference_times = <<>>
\* No detector call is under way.
DetectorUnused ==
  /\ image = [cols |-> 0, rows |-> 0] /\ output_tensor = <<>> /\ detections = <<>>
  /\ nms_suppressed = <<>> /\ result = <<>> /\ det_pc = "none"
  /\ PreprocessorUnused /\ FacadeUnused

\* A std::string that is empty.
NoString == <<>>

\* The system ids of the model: this host's default id and another system's.
HostSystemId == <<"A">>
OtherSystemId == <<"B">>
SystemIds == {HostSystemId, OtherSystemId}

\* The millisecond clock: it starts at ClockStart and is one further with
\* every call, outside message and fault the run has seen.
ClockStart == 8

\* Values an uninitialized int or a byte past a buffer may hold.
GarbageValues == {0, 3}

\* The fields of a ZeroMQPublisher after its constructor.
PubConstructed ==
  /\ pub_context = FALSE /\ pub_socket = FALSE
  /\ pub_running = FALSE /\ pub_should_stop = FALSE
  /\ message_queue_ = <<>> /\ pub_thread = "none" /\ pub_pending = <<>>

\* The fields of a ZeroMQSubscriber after its constructor.
SubConstructed ==
  /\ sub_context = FALSE /\ sub_socket = FALSE
  /\ sub_running = FALSE /\ sub_should_stop = FALSE
  /\ sub_thread = "none" /\ sub_subscribed = <<>> /\ inbox = <<>>
  /\ message_handler_ = "none" /\ system_id_to_exclude_ = NoString
  /\ topic_filters_ = <<>>

\* A calling thread between calls: the last call it made and what it returned
\* ("true", "false" or "void").
Returned(op, ret) == [pc |-> "idle", op |-> op, ret |-> ret]
At(pc, op) == [pc |-> pc, op |-> op, ret |-> "pending"]

NoQueued == [topic |-> NoString, data |-> TextFrame(NoString), properties |-> EmptyMap]
SndReturned(op, ret) ==
  [pc |-> "idle", op |-> op, ret |-> ret, msg |-> NoQueued,
   ipc |-> NewIpcMessage(kUnknown)]

(***************************************************************************)
(* ZeroMQPublisher.                                                        *)
(***************************************************************************)
\* Start() up to its sleep: with the context made, the thread is launched.
\* context_ok = FALSE is zmq::context_t raising zmq::error_t.
PubStartBegin(context_ok) ==
  /\ pub_should_stop' = FALSE
  /\ pub_context' = (pub_context \/ context_ok)
  /\ pub_thread' = IF context_ok THEN "start" ELSE pub_thread
  /\ UNCHANGED <<pub_socket, pub_running, message_queue_, pub_pending>>

\* Start() after its sleep.
PubStartEnd ==
  /\ pub_running' = TRUE
  /\ UNCHANGED <<pub_context, pub_socket, pub_should_stop, message_queue_,
                 pub_thread, pub_pending>>

\* Stop(): should_stop_ = true and notify_all.  The queue is left as it is;
\* at_stop is history, it marks the entries this Stop() found waiting.
PubStopBegin ==
  /\ pub_should_stop' = TRUE
  /\ message_queue_' = [k \in 1..Len(message_queue_) |->
                          [message_queue_[k] EXCEPT !.at_stop = TRUE]]
  /\ UNCHANGED <<pub_context, pub_socket, pub_running, pub_thread, pub_pending>>

\* A Stop() that lets go of the context first.
PubStopResetOrder_ContextFirst == <<"context", "socket">>

\* The order in which Stop() lets go of its two resources.
PubStopResetOrder == <<"socket", "context">>

\* One reset of Stop(): what it destroys.
ResetStep(order, step, what, held) == IF order[step] = what THEN FALSE ELSE held

\* Stop(): the join returns once the thread has ended; then the first reset.
PubStopJoin ==
  /\ pub_thread \in {"done", "none"}
  /\ pub_thread' = "none"
  /\ pub_socket' = ResetStep(PubStopResetOrder, 1, "socket", pub_socket)
  /\ pub_context' = ResetStep(PubStopResetOrder, 1, "context", pub_context)
  /\ pub_pending' = IF pub_socket' THEN pub_pending ELSE <<>>
  /\ UNCHANGED <<pub_running, pub_should_stop, message_queue_>>

\* Stop(): the second reset and running_ = false.
PubStopEnd ==
  /\ pub_socket' = ResetStep(PubStopResetOrder, 2, "socket", pub_socket)
  /\ pub_context' = ResetStep(PubStopResetOrder, 2, "context", pub_context)
  /\ pub_pending' = IF pub_socket' THEN pub_pending ELSE <<>>
  /\ pub_running' = FALSE
  /\ UNCHANGED <<pub_should_stop, message_queue_, pub_thread>>

IsPrefix(p, str) == Len(p) <= Len(str) /\ SubSeq(str, 1, Len(p)) = p

\* A subscription filter matches a message by the first bytes of its first
\* frame; the empty filter matches every message.
MatchesFilter(filters, frame) ==
  \E i \in 1..Len(filters) :
    \/ filters[i] = NoString
    \/ Kind(frame) = "text" /\ IsPrefix(filters[i], Raw(frame))

\* The subscriber socket is connected and receives.
Connected == sub_thread \in {"loop", "recv"}

\* The socket's receive queue after a complete multi-part message arrives.
Arrive(box, frames) ==
  IF Connected /\ MatchesFilter(sub_subscribed, frames[1])
  THEN Append(box, [frames |-> frames, total |-> Len(frames)])
  ELSE box

\* The three frames PublisherThread makes of a queued message.
MessageFrames(msg) ==
  <<TextFrame(msg.topic), TextFrame(PropsStr(msg.properties)), msg.data>>

\* The more-flag PublisherThread sends part k with.
SendMore(k) == k < 3

\* PublisherThread up to its loop: the socket is made and bound.  A failed
\* bind raises zmq::error_t, which ends the thread.
PubThreadInit ==
  /\ pub_thread = "start"
  /\ \E bind_ok \in BOOLEAN :
       pub_thread' = IF bind_ok THEN "loop" ELSE "done"
  /\ pub_socket' = TRUE
  /\ pub_pending' = <<>>
  /\ UNCHANGED <<pub_context, pub_running, pub_should_stop, message_queue_>>
  /\ UNCHANGED <<subVars, ipcVars, ctl, snd, histVars>>
  /\ UNCHANGED detVars

\* The condition of the inner while.
PubHasWork(queue, should_stop) == queue # <<>> /\ ~should_stop

\* while (!should_stop_): the thread ends once it reads should_stop_ set at
\* the head of its loop, which it reaches whenever the inner while has no
\* work (the wait on the condition variable ends by a notification or after
\* its 100 ms).
PubThreadExit ==
  /\ pub_thread = "loop"
  /\ pub_should_stop
  /\ pub_thread' = "done"
  /\ UNCHANGED <<pub_context, pub_socket, pub_running, pub_should_stop,
                 message_queue_, pub_pending>>
  /\ UNCHANGED <<subVars, ipcVars, ctl, snd, histVars>>
  /\ UNCHANGED detVars

\* One round of the inner while: the front message is taken from the queue
\* and sent frame by frame.  fail_at = k > 0 is the send of frame k raising
\* zmq::error_t: the frames before it are on the socket, the rest is dropped.
PubThreadSend ==
  /\ pub_thread = "loop"
  /\ PubHasWork(message_queue_, pub_should_stop)
  /\ \E fail_at \in 0..3 :
       LET msg == Head(message_queue_)
           id == msg.seq
           frames == MessageFrames(msg)
           sent == IF fail_at = 0 THEN 3 ELSE fail_at - 1
           out == [k \in 1..sent |->
                     [frame |-> frames[k], more |-> SendMore(k), id |-> id, part |-> k]]
           parts == pub_pending \o [k \in 1..sent |-> frames[k]]
           complete == sent > 0 /\ ~out[sent].more
       IN /\ fail_at > 0 => budget > 0
          /\ budget' = IF fail_at > 0 THEN budget - 1 ELSE budget
          /\ message_queue_' = Tail(message_queue_)
          /\ wire' = wire \o out
          /\ pub_pending' = IF complete THEN <<>> ELSE parts
          /\ inbox' = IF complete THEN Arrive(inbox, parts) ELSE inbox
  /\ UNCHANGED <<pub_context, pub_socket, pub_running, pub_should_stop, pub_thread>>
  /\ UNCHANGED <<sub_context, sub_socket, sub_running, sub_should_stop, sub_thread,
                 sub_subscribed, message_handler_, system_id_to_exclude_,
                 topic_filters_>>
  /\ UNCHANGED <<ipcVars, ctl, snd, enq_log, handled, suppressed>>
  /\ UNCHANGED detVars

PublisherThread == PubThreadInit \/ PubThreadExit \/ PubThreadSend

(***************************************************************************)
(* ZeroMQSubscriber.                                                       *)
(***************************************************************************)
\* Start() up to its sleep.
SubStartBegin(context_ok) ==
  /\ sub_should_stop' = FALSE
  /\ sub_context' = (sub_context \/ context_ok)
  /\ sub_thread' = IF context_ok THEN "start" ELSE sub_thread
  /\ UNCHANGED <<sub_socket, sub_running, sub_subscribed, inbox, message_handler_,
                 system_id_to_exclude_, topic_filters_>>

\* Start() after its sleep.
SubStartEnd ==
  /\ sub_running' = TRUE
  /\ UNCHANGED <<sub_context, sub_socket, sub_should_stop, sub_thread, sub_subscribed,
                 inbox, message_handler_, system_id_to_exclude_, topic_filters_>>

\* Stop(): should_stop_ = true.
SubStopBegin ==
  /\ sub_should_stop' = TRUE
  /\ UNCHANGED <<sub_context, sub_socket, sub_running, sub_thread, sub_subscribed,
                 inbox, message_handler_, system_id_to_exclude_, topic_filters_>>

SubStopResetOrder == <<"socket", "context">>

\* Stop(): the join, then the first reset.  A destroyed socket drops its
\* subscriptions and the messages it holds.
SubStopJoin ==
  /\ sub_thread \in {"done", "none"}
  /\ sub_thread' = "none"
  /\ sub_socket' = ResetStep(SubStopResetOrder, 1, "socket", sub_socket)
  /\ sub_context' = ResetStep(SubStopResetOrder, 1, "context", sub_context)
  /\ sub_subscribed' = IF sub_socket' THEN sub_subscribed ELSE <<>>
  /\ inbox' = IF sub_socket' THEN inbox ELSE <<>>
  /\ UNCHANGED <<sub_running, sub_should_stop, message_handler_,
                 system_id_to_exclude_, topic_filters_>>

\* Stop(): the second reset and running_ = false.
SubStopEnd ==
  /\ sub_socket' = ResetStep(SubStopResetOrder, 2, "socket", sub_socket)
  /\ sub_context' = ResetStep(SubStopResetOrder, 2, "context", sub_context)
  /\ sub_subscribed' = IF sub_socket' THEN sub_subscribed ELSE <<>>
  /\ inbox' = IF sub_socket' THEN inbox ELSE <<>>
  /\ sub_running' = FALSE
  /\ UNCHANGED <<sub_should_stop, sub_thread, message_handler_,
                 system_id_to_exclude_, topic_filters_>>

\* The filters SubscriberThread sets on its new socket: the recorded ones, or
\* the empty filter when none is recorded.
InitialSubscriptions(filters) == IF filters = <<>> THEN <<NoString>> ELSE filters

\* SubscriberThread up to its loop: the socket is made, connected and
\* subscribed.  A failed connect raises zmq::error_t, which ends the thread.
SubThreadInit ==
  /\ sub_thread = "start"
  /\ \E connect_ok \in BOOLEAN :
       /\ sub_thread' = IF connect_ok THEN "loop" ELSE "done"
       /\ sub_subscribed' = IF connect_ok THEN InitialSubscriptions(topic_filters_)
                            ELSE <<>>
  /\ sub_socket' = TRUE
  /\ inbox' = <<>>
  /\ UNCHANGED <<sub_context, sub_running, sub_should_stop, message_handler_,
                 system_id_to_exclude_, topic_filters_>>
  /\ UNCHANGED <<pubVars, ipcVars, ctl, snd, histVars>>
  /\ UNCHANGED detVars

\* A loop that never reads should_stop_.
SubLoopNext_Forever(should_stop) == "recv"

\* while (!should_stop_): where the thread goes from the head of its loop.
SubLoopNext(should_stop) == IF should_stop THEN "done" ELSE "recv"

SubThreadLoop ==
  /\ sub_thread = "loop"
  /\ sub_thread' = SubLoopNext(sub_should_stop)
  /\ UNCHANGED <<sub_context, sub_socket, sub_running, sub_should_stop, sub_subscribed,
                 inbox, message_handler_, system_id_to_exclude_, topic_filters_>>
  /\ UNCHANGED <<pubVars, ipcVars, ctl, snd, histVars>>
  /\ UNCHANGED detVars

\* recv timed out (EAGAIN): nothing is waiting in the socket.
SubThreadTimeout ==
  /\ sub_thread = "recv"
  /\ inbox = <<>>
  /\ sub_thread' = "loop"
  /\ UNCHANGED <<sub_context, sub_socket, sub_running, sub_should_stop, sub_subscribed,
                 inbox, message_handler_, system_id_to_exclude_, topic_filters_>>
  /\ UNCHANGED <<pubVars, ipcVars, ctl, snd, histVars>>
  /\ UNCHANGED detVars

\* How many frames one round of the loop takes from the message at the front
\* of the socket, and whether it gets as far as the handler: an empty first
\* frame, or a cleared more-flag after the first or second frame, ends the
\* round; nothing is asked of the third frame.
RecvRound(frames) ==
  IF Len(Raw(frames[1])) = 0 THEN [used |-> 1, deliver |-> FALSE]
  ELSE IF Len(frames) = 1 THEN [used |-> 1, deliver |-> FALSE]
  ELSE IF Len(frames) = 2 THEN [used |-> 2, deliver |-> FALSE]
  ELSE [used |-> 3, deliver |-> TRUE]

\* The frames left in the socket after a round.
AfterRound(box, used) ==
  IF used = Len(Head(box).frames) THEN Tail(box)
  ELSE <<[Head(box) EXCEPT !.frames = SubSeq(@, used + 1, Len(@))]>> \o Tail(box)

\* The subscriber's own filter on System_ID.
Excluded(properties, exclude) ==
  /\ exclude # NoString
  /\ kZeroMQSystemIdProperty \in DOMAIN properties
  /\ properties[kZeroMQSystemIdProperty] = exclude

\* A handler invocation, with the place of its frames in the message they
\* came from (total frames of that message, index of the first one used) and
\* what the handler did with it (outcome, filled in by InvokeHandler).
Invocation(entry, properties) ==
  [topic |-> entry.frames[1], data |-> entry.frames[3], properties |-> properties,
   total |-> entry.total, first |-> entry.total - Len(entry.frames) + 1,
   outcome |-> Dispatched(TRUE, <<>>)]

\* message_handler_(topic, data, properties)
InvokeHandler(call) ==
  IF message_handler_ = "OnMessageReceived"
  THEN \E garbage \in GarbageValues :
         LET d == OnMessageReceived(call.topic, call.data, call.properties,
                                    system_id_, system_mode_, camera_still_mode_,
                                    garbage)
         IN /\ handled' = Append(handled, [call EXCEPT !.outcome = d])
            /\ event_queue' = event_queue \o d.events
            /\ last_received_image_' = IF d.save THEN d.image
                                       ELSE last_received_image_
  ELSE /\ handled' = Append(handled, call)
       /\ UNCHANGED <<event_queue, last_received_image_>>

\* One round of the receive loop with a message waiting.
SubThreadRecv ==
  /\ sub_thread = "recv"
  /\ inbox # <<>>
  /\ sub_thread' = "loop"
  /\ LET entry == Head(inbox)
         round == RecvRound(entry.frames)
         properties == ParseProperties(entry.frames[2])
     IN /\ inbox' = AfterRound(inbox, round.used)
        /\ IF round.deliver /\ Excluded(properties, system_id_to_exclude_)
           THEN /\ suppressed' = suppressed + 1
                /\ UNCHANGED <<handled, event_queue, last_received_image_>>
           ELSE IF round.deliver /\ message_handler_ # "none"
           THEN /\ InvokeHandler(Invocation(entry, properties))
                /\ UNCHANGED suppressed
           ELSE UNCHANGED <<handled, suppressed, event_queue, last_received_image_>>
  /\ UNCHANGED <<sub_context, sub_socket, sub_running, sub_should_stop, sub_subscribed,
                 message_handler_, system_id_to_exclude_, topic_filters_>>
  /\ UNCHANGED <<pubVars, publisher_, subscriber_, system_id_, initialized_,
                 system_mode_, camera_still_mode_, crashed>>
  /\ UNCHANGED <<ctl, snd, wire, enq_log, budget>>
  /\ UNCHANGED detVars

SubscriberThread == SubThreadInit \/ SubThreadLoop \/ SubThreadTimeout \/ SubThreadRecv

\* Subscribe(topic_filter)
Subscribe(filters, subscribed, has_socket, topic_filter) ==
  [filters |-> Append(filters, topic_filter),
   subscribed |-> IF has_socket THEN Append(subscribed, topic_filter) ELSE subscribed]

(***************************************************************************)
(* Other systems on the bus.                                               *)
(***************************************************************************)
\* The frames another system's publisher makes of an IPC message.
RemoteFrames(ipc_message, system_id, now) ==
  MessageFrames(SerializeIpcMessageToZeroMQ(ipc_message, system_id, now))

SmallMat == [rows |-> 1, cols |-> 2, type |-> CV_8UC1, data |-> <<10, 20>>]

ExtraFrame == TextFrame(<<"x">>)

\* What arrives from outside: well-formed messages of another system and of a
\* system that uses this host's id, and multi-part messages of one, two and
\* four frames, and one whose first frame is empty.
RemoteMessages ==
  LET ctrl == RemoteFrames(ControlMessage(kClubChangeToDriver), OtherSystemId, ClockStart)
      down == RemoteFrames(NewIpcMessage(kShutdown), HostSystemId, ClockStart)
  IN {ctrl, down, SubSeq(ctrl, 1, 1), SubSeq(ctrl, 1, 2), ctrl \o <<ExtraFrame>>,
      <<TextFrame(NoString)>> \o ctrl}

RemoteSend ==
  /\ Connected
  /\ budget > 0
  /\ budget' = budget - 1
  /\ \E frames \in RemoteMessages : inbox' = Arrive(inbox, frames)
  /\ UNCHANGED <<sub_context, sub_socket, sub_running, sub_should_stop, sub_thread,
                 sub_subscribed, message_handler_, system_id_to_exclude_,
                 topic_filters_>>
  /\ UNCHANGED <<pubVars, ipcVars, ctl, snd, wire, enq_log, handled, suppressed>>
  /\ UNCHANGED detVars

(***************************************************************************)
(* ZeroMQPublisher::SendMessage, as the sending thread runs it.            *)
(***************************************************************************)
\* The entry SendMessage builds from its arguments (Message msg, lines 67-70).
\* seq is history only: the entry's position among the accepted SendMessage
\* calls, by which the frames on the socket are traced back to their call.
QueueEntry(msg, seq) ==
  [topic |-> msg.topic, data |-> msg.data, properties |-> msg.properties, seq |-> seq,
   at_stop |-> FALSE]

EntryMessage(entry) ==
  [topic |-> entry.topic, data |-> entry.data, properties |-> entry.properties]

\* A SendMessage that never looks at running_.
SendMessageRefused_Never(running) == FALSE

\* if (!running_.load()) return false
SendMessageRefused(running) == ~running

\* A queue that takes new messages at its front.
SendMessagePush_Front(queue, msg) == <<msg>> \o queue

\* message_queue_.push(msg) under queue_mutex_, then notify_one, return true.
SendMessagePush(queue, msg) == Append(queue, msg)

\* The sending thread enters SendMessage with the message in snd.msg.
SendMessageCheck ==
  /\ snd.pc = "send"
  /\ snd' = IF SendMessageRefused(pub_running)
            THEN SndReturned("SendMessage", "false")
            ELSE [snd EXCEPT !.pc = "push"]
  /\ UNCHANGED <<pubVars, subVars, ipcVars, ctl, histVars>>
  /\ UNCHANGED detVars

SendMessageEnqueue ==
  /\ snd.pc = "push"
  /\ message_queue_' = SendMessagePush(message_queue_,
                                       QueueEntry(snd.msg, Len(enq_log) + 1))
  /\ enq_log' = Append(enq_log, snd.msg)
  /\ snd' = SndReturned("SendMessage", "true")
  /\ UNCHANGED <<pub_context, pub_socket, pub_running, pub_should_stop, pub_thread,
                 pub_pending>>
  /\ UNCHANGED <<subVars, ipcVars, ctl, wire, handled, suppressed, budget>>
  /\ UNCHANGED detVars

(***************************************************************************)
(* A client that owns a publisher and a subscriber and drives them         *)
(* through their public operations.                                        *)
(***************************************************************************)
ClientTopic == kGolfSimMessageTopic

\* What the client sends: two payloads, one marked with this host's id.
ClientMessages ==
  {[topic |-> ClientTopic, data |-> TextFrame(<<"1">>),
    properties |-> MapPut(EmptyMap, kZeroMQSystemIdProperty, HostSystemId)],
   [topic |-> ClientTopic, data |-> TextFrame(<<"2">>),
    properties |-> MapPut(EmptyMap, kZeroMQSystemIdProperty, OtherSystemId)]}

ClientSend ==
  /\ snd.pc = "idle"
  /\ budget > 0
  /\ budget' = budget - 1
  /\ \E msg \in ClientMessages :
       snd' = [pc |-> "send", op |-> "SendMessage", ret |-> "pending", msg |-> msg,
               ipc |-> NewIpcMessage(kUnknown)]
  /\ UNCHANGED <<pubVars, subVars, ipcVars, ctl, wire, enq_log, handled, suppressed>>
  /\ UNCHANGED detVars

\* publisher.Start(): already running returns true at once.
ClientPubStart ==
  /\ ctl.pc = "idle"
  /\ budget > 0
  /\ IF pub_running
     THEN /\ ctl' = Returned("PubStart", "true")
          /\ UNCHANGED <<pubVars, budget>>
     ELSE \E context_ok \in BOOLEAN :
            /\ PubStartBegin(context_ok)
            /\ ctl' = IF context_ok THEN At("pub_start_sleep", "PubStart")
                      ELSE Returned("PubStart", "false")
            /\ budget' = budget - 1
  /\ UNCHANGED <<subVars, ipcVars, snd, wire, enq_log, handled, suppressed>>
  /\ UNCHANGED detVars

ClientPubStartEnd ==
  /\ ctl.pc = "pub_start_sleep"
  /\ PubStartEnd
  /\ ctl' = Returned("PubStart", "true")
  /\ UNCHANGED <<subVars, ipcVars, snd, histVars>>
  /\ UNCHANGED detVars

\* publisher.Stop(): not running returns at once.
ClientPubStop ==
  /\ ctl.pc = "idle"
  /\ IF pub_running
     THEN PubStopBegin /\ ctl' = At("pub_stop_join", "PubStop")
     ELSE UNCHANGED pubVars /\ ctl' = Returned("PubStop", "void")
  /\ UNCHANGED <<subVars, ipcVars, snd, histVars>>
  /\ UNCHANGED detVars

ClientPubStopJoin ==
  /\ ctl.pc = "pub_stop_join"
  /\ PubStopJoin
  /\ ctl' = At("pub_stop_end", "PubStop")
  /\ UNCHANGED <<subVars, ipcVars, snd, histVars>>
  /\ UNCHANGED detVars

ClientPubStopEnd ==
  /\ ctl.pc = "pub_stop_end"
  /\ PubStopEnd
  /\ ctl' = Returned("PubStop", "void")
  /\ UNCHANGED <<subVars, ipcVars, snd, histVars>>
  /\ UNCHANGED detVars

ClientSubStart ==
  /\ ctl.pc = "idle"
  /\ budget > 0
  /\ IF sub_running
     THEN /\ ctl' = Returned("SubStart", "true")
          /\ UNCHANGED <<subVars, budget>>
     ELSE \E context_ok \in BOOLEAN :
            /\ SubStartBegin(context_ok)
            /\ ctl' = IF context_ok THEN At("sub_start_sleep", "SubStart")
                      ELSE Returned("SubStart", "false")
            /\ budget' = budget - 1
  /\ UNCHANGED <<pubVars, ipcVars, snd, wire, enq_log, handled, suppressed>>
  /\ UNCHANGED detVars

ClientSubStartEnd ==
  /\ ctl.pc = "sub_start_sleep"
  /\ SubStartEnd
  /\ ctl' = Returned("SubStart", "true")
  /\ UNCHANGED <<pubVars, ipcVars, snd, histVars>>
  /\ UNCHANGED detVars

ClientSubStop ==
  /\ ctl.pc = "idle"
  /\ IF sub_running
     THEN SubStopBegin /\ ctl' = At("sub_stop_join", "SubStop")
     ELSE UNCHANGED subVars /\ ctl' = Returned("SubStop", "void")
  /\ UNCHANGED <<pubVars, ipcVars, snd, histVars>>
  /\ UNCHANGED detVars

ClientSubStopJoin ==
  /\ ctl.pc = "sub_stop_join"
  /\ SubStopJoin
  /\ ctl' = At("sub_stop_end", "SubStop")
  /\ UNCHANGED <<pubVars, ipcVars, snd, histVars>>
  /\ UNCHANGED detVars

ClientSubStopEnd ==
  /\ ctl.pc = "sub_stop_end"
  /\ SubStopEnd
  /\ ctl' = Returned("SubStop", "void")
  /\ UNCHANGED <<pubVars, ipcVars, snd, histVars>>
  /\ UNCHANGED detVars

\* The bus objects as constructed and configured by the client: its handler
\* installed, this host's id excluded, no topic filter.  GolfSimIpcSystem is
\* not in use.
IpcUnused ==
  /\ publisher_ = FALSE /\ subscriber_ = FALSE /\ system_id_ = NoString
  /\ initialized_ = FALSE /\ last_received_image_ = EmptyMat /\ event_queue = <<>>
  /\ system_mode_ = "kTest" /\ camera_still_mode_ = FALSE /\ crashed = FALSE

InitTransport ==
  /\ PubConstructed
  /\ sub_context = FALSE /\ sub_socket = FALSE
  /\ sub_running = FALSE /\ sub_should_stop = FALSE
  /\ sub_thread = "none" /\ sub_subscribed = <<>> /\ inbox = <<>>
  /\ message_handler_ = "client" /\ system_id_to_exclude_ = HostSystemId
  /\ topic_filters_ = <<>>
  /\ IpcUnused
  /\ ctl = Returned("none", "void")
  /\ snd = SndReturned("none", "void")
  /\ wire = <<>> /\ enq_log = <<>> /\ handled = <<>> /\ suppressed = 0
  /\ budget = MaxCalls
  /\ DetectorUnused

NextTransport ==
  \/ ClientPubStart \/ ClientPubStartEnd
  \/ ClientPubStop \/ ClientPubStopJoin \/ ClientPubStopEnd
  \/ ClientSubStart \/ ClientSubStartEnd
  \/ ClientSubStop \/ ClientSubStopJoin \/ ClientSubStopEnd
  \/ ClientSend \/ SendMessageCheck \/ SendMessageEnqueue
  \/ PublisherThread
  \/ SubscriberThread
  \/ RemoteSend

SpecTransport == InitTransport /\ [][NextTransport]_vars

(***************************************************************************)
(* GolfSimIpcSystem, driven by a control thread (InitializeIPCSystem,      *)
(* ShutdownIPCSystem, SetSystemId) and a sending thread (SendIpcMessage).  *)
(***************************************************************************)
\* make_unique<ZeroMQPublisher>: the fields of the new object.
PubConstruct ==
  /\ pub_context' = FALSE /\ pub_socket' = FALSE
  /\ pub_running' = FALSE /\ pub_should_stop' = FALSE
  /\ message_queue_' = <<>> /\ pub_thread' = "none" /\ pub_pending' = <<>>

\* make_unique<ZeroMQSubscriber>, then SetSystemIdToExclude, SetMessageHandler
\* and Subscribe on the object, which has no socket yet.
SubConstruct(exclude, handler, filters) ==
  /\ sub_context' = FALSE /\ sub_socket' = FALSE
  /\ sub_running' = FALSE /\ sub_should_stop' = FALSE
  /\ sub_thread' = "none" /\ sub_subscribed' = <<>> /\ inbox' = <<>>
  /\ message_handler_' = handler /\ system_id_to_exclude_' = exclude
  /\ topic_filters_' = filters

\* The id InitializeIPCSystem makes up when none is set (hostname_pid).
DefaultSystemId == HostSystemId

\* InitializeIPCSystem up to publisher_->Start().
IpcInitialize ==
  /\ ctl.pc = "idle"
  /\ budget > 0
  /\ budget' = budget - 1
  /\ IF initialized_
     THEN /\ ctl' = Returned("InitializeIPCSystem", "true")
          /\ UNCHANGED <<pubVars, publisher_, system_id_>>
     ELSE /\ system_id_' = IF system_id_ = NoString THEN DefaultSystemId ELSE system_id_
          /\ publisher_' = TRUE
          /\ PubConstruct
          /\ ctl' = At("init_pub", "InitializeIPCSystem")
  /\ UNCHANGED <<subVars, subscriber_, initialized_, last_received_image_, event_queue,
                 system_mode_, camera_still_mode_, crashed>>
  /\ UNCHANGED <<snd, wire, enq_log, handled, suppressed>>
  /\ UNCHANGED detVars

\* publisher_->Start() up to its sleep; a false return ends the call.
IpcInitPubStart ==
  /\ ctl.pc = "init_pub"
  /\ \E context_ok \in BOOLEAN :
       /\ PubStartBegin(context_ok)
       /\ ctl' = IF context_ok THEN At("init_pub_sleep", "InitializeIPCSystem")
                 ELSE Returned("InitializeIPCSystem", "false")
  /\ UNCHANGED <<subVars, ipcVars, snd, histVars>>
  /\ UNCHANGED detVars

\* publisher_->Start() returns true; the subscriber is made and configured.
IpcInitSubscriber ==
  /\ ctl.pc = "init_pub_sleep"
  /\ PubStartEnd
  /\ subscriber_' = TRUE
  /\ LET s == Subscribe(<<>>, <<>>, FALSE, kGolfSimTopicPrefix)
     IN SubConstruct(system_id_, "OnMessageReceived", s.filters)
  /\ ctl' = At("init_sub", "InitializeIPCSystem")
  /\ UNCHANGED <<publisher_, system_id_, initialized_, last_received_image_,
                 event_queue, system_mode_, camera_still_mode_, crashed>>
  /\ UNCHANGED <<snd, histVars>>
  /\ UNCHANGED detVars

\* subscriber_->Start() up to its sleep; on a false return the publisher is
\* stopped.
IpcInitSubStart ==
  /\ ctl.pc = "init_sub"
  /\ \E context_ok \in BOOLEAN :
       /\ SubStartBegin(context_ok)
       /\ ctl' = IF context_ok THEN At("init_sub_sleep", "InitializeIPCSystem")
                 ELSE At("init_fail_stop", "InitializeIPCSystem")
  /\ UNCHANGED <<pubVars, ipcVars, snd, histVars>>
  /\ UNCHANGED detVars

\* subscriber_->Start() returns true: initialized_ = true, return true.
IpcInitDone ==
  /\ ctl.pc = "init_sub_sleep"
  /\ SubStartEnd
  /\ initialized_' = TRUE
  /\ ctl' = Returned("InitializeIPCSystem", "true")
  /\ UNCHANGED <<publisher_, subscriber_, system_id_, last_received_image_,
                 event_queue, system_mode_, camera_still_mode_, crashed>>
  /\ UNCHANGED <<pubVars, snd, histVars>>
  /\ UNCHANGED detVars

\* publisher_->Stop() after the subscriber failed to start, then return false.
IpcInitFailStop ==
  /\ ctl.pc = "init_fail_stop"
  /\ IF pub_running
     THEN PubStopBegin /\ ctl' = At("init_fail_join", "InitializeIPCSystem")
     ELSE UNCHANGED pubVars /\ ctl' = Returned("InitializeIPCSystem", "false")
  /\ UNCHANGED <<subVars, ipcVars, snd, histVars>>
  /\ UNCHANGED detVars

IpcInitFailJoin ==
  /\ ctl.pc = "init_fail_join"
  /\ PubStopJoin
  /\ ctl' = At("init_fail_end", "InitializeIPCSystem")
  /\ UNCHANGED <<subVars, ipcVars, snd, histVars>>
  /\ UNCHANGED detVars

IpcInitFailEnd ==
  /\ ctl.pc = "init_fail_end"
  /\ PubStopEnd
  /\ ctl' = Returned("InitializeIPCSystem", "false")
  /\ UNCHANGED <<subVars, ipcVars, snd, histVars>>
  /\ UNCHANGED detVars

InitializeIPCSystem ==
  \/ IpcInitialize \/ IpcInitPubStart \/ IpcInitSubscriber \/ IpcInitSubStart
  \/ IpcInitDone \/ IpcInitFailStop \/ IpcInitFailJoin \/ IpcInitFailEnd

\* ShutdownIPCSystem up to the join inside subscriber_->Stop().
IpcShutdown ==
  /\ ctl.pc = "idle"
  /\ IF ~initialized_
     THEN /\ ctl' = Returned("ShutdownIPCSystem", "true")
          /\ UNCHANGED subVars
     ELSE IF subscriber_ /\ sub_running
     THEN SubStopBegin /\ ctl' = At("down_sub_join", "ShutdownIPCSystem")
     ELSE /\ ctl' = At("down_sub_reset", "ShutdownIPCSystem")
          /\ UNCHANGED subVars
  /\ UNCHANGED <<pubVars, ipcVars, snd, histVars>>
  /\ UNCHANGED detVars

IpcShutdownSubJoin ==
  /\ ctl.pc = "down_sub_join"
  /\ SubStopJoin
  /\ ctl' = At("down_sub_end", "ShutdownIPCSystem")
  /\ UNCHANGED <<pubVars, ipcVars, snd, histVars>>
  /\ UNCHANGED detVars

IpcShutdownSubEnd ==
  /\ ctl.pc = "down_sub_end"
  /\ SubStopEnd
  /\ ctl' = At("down_sub_reset", "ShutdownIPCSystem")
  /\ UNCHANGED <<pubVars, ipcVars, snd, histVars>>
  /\ UNCHANGED detVars

\* subscriber_.reset(), then publisher_->Stop() up to its join.
IpcShutdownPublisher ==
  /\ ctl.pc = "down_sub_reset"
  /\ subscriber_' = FALSE
  /\ SubConstruct(NoString, "none", <<>>)
  /\ IF publisher_ /\ pub_running
     THEN PubStopBegin /\ ctl' = At("down_pub_join", "ShutdownIPCSystem")
     ELSE UNCHANGED pubVars /\ ctl' = At("down_pub_reset", "ShutdownIPCSystem")
  /\ UNCHANGED <<publisher_, system_id_, initialized_, last_received_image_,
                 event_queue, system_mode_, camera_still_mode_, crashed>>
  /\ UNCHANGED <<snd, histVars>>
  /\ UNCHANGED detVars

IpcShutdownPubJoin ==
  /\ ctl.pc = "down_pub_join"
  /\ PubStopJoin
  /\ ctl' = At("down_pub_end", "ShutdownIPCSystem")
  /\ UNCHANGED <<subVars, ipcVars, snd, histVars>>
  /\ UNCHANGED detVars

IpcShutdownPubEnd ==
  /\ ctl.pc = "down_pub_end"
  /\ PubStopEnd
  /\ ctl' = At("down_pub_reset", "ShutdownIPCSystem")
  /\ UNCHANGED <<subVars, ipcVars, snd, histVars>>
  /\ UNCHANGED detVars

\* publisher_.reset(), initialized_ = false, return true.
IpcShutdownDone ==
  /\ ctl.pc = "down_pub_reset"
  /\ publisher_' = FALSE
  /\ PubConstruct
  /\ initialized_' = FALSE
  /\ ctl' = Returned("ShutdownIPCSystem", "true")
  /\ UNCHANGED <<subscriber_, system_id_, last_received_image_, event_queue,
                 system_mode_, camera_still_mode_, crashed>>
  /\ UNCHANGED <<subVars, snd, histVars>>
  /\ UNCHANGED detVars

ShutdownIPCSystem ==
  \/ IpcShutdown \/ IpcShutdownSubJoin \/ IpcShutdownSubEnd \/ IpcShutdownPublisher
  \/ IpcShutdownPubJoin \/ IpcShutdownPubEnd \/ IpcShutdownDone

\* SetSystemId(system_id): no lock is taken.
SetSystemId ==
  /\ ctl.pc = "idle"
  /\ budget > 0
  /\ budget' = budget - 1
  /\ \E system_id \in SystemIds \ {system_id_} : system_id_' = system_id
  /\ ctl' = Returned("SetSystemId", "void")
  /\ UNCHANGED <<publisher_, subscriber_, initialized_, last_received_image_,
                 event_queue, system_mode_, camera_still_mode_, crashed>>
  /\ UNCHANGED <<pubVars, subVars, snd, wire, enq_log, handled, suppressed>>
  /\ UNCHANGED detVars

\* std::chrono::system_clock::now(), in milliseconds.
Now == ClockStart + (MaxCalls - budget)

\* The messages the host sends.
IpcMessages ==
  {ControlMessage(kClubChangeToPutter), NewIpcMessage(kShutdown),
   ImageMessage(kCamera2Image, SmallMat)}

\* SendIpcMessage up to the second read of system_id_ in
\* SerializeIpcMessageToZeroMQ.
IpcSendCall ==
  /\ snd.pc = "idle"
  /\ budget > 0
  /\ budget' = budget - 1
  /\ \E ipc_message \in IpcMessages :
       snd' = IF ~initialized_ \/ ~publisher_
              THEN SndReturned("SendIpcMessage", "false")
              ELSE [pc |-> "serialize", op |-> "SendIpcMessage", ret |-> "pending",
                    msg |-> SerializeEnvelope(ipc_message, system_id_, Now),
                    ipc |-> ipc_message]
  /\ UNCHANGED <<pubVars, subVars, ipcVars, ctl, wire, enq_log, handled, suppressed>>
  /\ UNCHANGED detVars

\* The rest of SerializeIpcMessageToZeroMQ; publisher_->SendMessage is next.
IpcSendSerialize ==
  /\ snd.pc = "serialize"
  /\ snd' = [snd EXCEPT !.pc = "send",
                        !.msg = SerializeData(snd.ipc, snd.msg, system_id_)]
  /\ UNCHANGED <<pubVars, subVars, ipcVars, ctl, histVars>>
  /\ UNCHANGED detVars

\* publisher_->SendMessage on the publisher that publisher_ holds.
IpcSendMessage ==
  /\ publisher_
  /\ SendMessageCheck \/ SendMessageEnqueue

\* publisher_->SendMessage after ShutdownIPCSystem has reset publisher_: the
\* call is made through a null pointer, or on the destroyed publisher if the
\* pointer was read before the reset.  The process dies, or the call comes
\* back with either value and no live queue has the message.
IpcSendDestroyed ==
  /\ ~publisher_
  /\ snd.pc \in {"send", "push"}
  /\ \E outcome \in {"crash", "true", "false"} :
       IF outcome = "crash"
       THEN /\ crashed' = TRUE
            /\ snd' = [snd EXCEPT !.pc = "dead"]
            /\ ctl' = [ctl EXCEPT !.pc = "dead"]
            /\ pub_thread' = "dead"
            /\ sub_thread' = "dead"
       ELSE /\ snd' = SndReturned("SendMessage", outcome)
            /\ UNCHANGED <<crashed, ctl, pub_thread, sub_thread>>
  /\ UNCHANGED <<publisher_, subscriber_, system_id_, initialized_,
                 last_received_image_, event_queue, system_mode_, camera_still_mode_>>
  /\ UNCHANGED <<pub_context, pub_socket, pub_running, pub_should_stop,
                 message_queue_, pub_pending>>
  /\ UNCHANGED <<sub_context, sub_socket, sub_running, sub_should_stop,
                 sub_subscribed, inbox, message_handler_, system_id_to_exclude_,
                 topic_filters_>>
  /\ UNCHANGED histVars
  /\ UNCHANGED detVars

SendIpcMessage ==
  \/ IpcSendCall \/ IpcSendSerialize \/ IpcSendMessage \/ IpcSendDestroyed

\* The mode the host runs in.
HostMode == "kCamera1"

\* The process before InitializeIPCSystem: no publisher, no subscriber, no id.
Init ==
  /\ PubConstructed
  /\ SubConstructed
  /\ publisher_ = FALSE /\ subscriber_ = FALSE /\ system_id_ = NoString
  /\ initialized_ = FALSE /\ last_received_image_ = EmptyMat /\ event_queue = <<>>
  /\ system_mode_ = HostMode /\ camera_still_mode_ = FALSE /\ crashed = FALSE
  /\ ctl = Returned("none", "void")
  /\ snd = SndReturned("none", "void")
  /\ wire = <<>> /\ enq_log = <<>> /\ handled = <<>> /\ suppressed = 0
  /\ budget = MaxCalls
  /\ DetectorUnused

Next ==
  \/ InitializeIPCSystem
  \/ ShutdownIPCSystem
  \/ SetSystemId
  \/ SendIpcMessage
  \/ PublisherThread
  \/ SubscriberThread
  \/ RemoteSend

Spec == Init /\ [][Next]_vars

(***************************************************************************)
(* The transport under fair scheduling: a background thread that can leave *)
(* the place it is at does so, and a thread inside Stop() goes on once its *)
(* join can return.                                                        *)
(***************************************************************************)
\* PublisherThread leaves its set-up, or leaves its loop with should_stop_
\* set.  (Sending a message keeps it in the loop.)
PubThreadAdvances ==
  \/ pub_thread = "start" /\ pub_thread' \in {"loop", "done"}
  \/ pub_thread = "loop" /\ pub_should_stop /\ pub_thread' = "done"

\* SubscriberThread leaves its set-up, the head of its loop, or its recv, which
\* returns after the receive timeout at the latest.
SubThreadAdvances ==
  /\ sub_thread \in {"start", "loop", "recv"}
  /\ sub_thread' \in {"loop", "recv", "done"} \ {sub_thread}

SpecTransportLive ==
  /\ SpecTransport
  /\ WF_pub_thread(PubThreadAdvances)
  /\ WF_sub_thread(SubThreadAdvances)
  /\ WF_vars(ClientPubStopJoin \/ ClientPubStopEnd)
  /\ WF_vars(ClientSubStopJoin \/ ClientSubStopEnd)

(***************************************************************************)
(* The image codec on its own: an image message is serialized, its frames  *)
(* are made as the publisher makes them, and the receiving side parses the *)
(* header frame and builds the message again.  snd.ipc is the message,     *)
(* snd.msg its serialized form, last_received_image_ the frame built.      *)
(***************************************************************************)
MaxRows == 2
MaxCols == 2

\* First bytes of the test patterns.
PixelSeeds == {0, 100, 251}

\* rows * cols pixels of a pattern that differs from byte to byte.
PatternMat(rows, cols, type, seed) ==
  [rows |-> rows, cols |-> cols, type |-> type,
   data |-> [i \in 1..(rows * cols * ElemSize(type)) |-> (seed + 7 * (i - 1)) % 256]]

\* The frames a message can hold: the empty frame and continuous frames of
\* one and three channels.
CodecMats ==
  {EmptyMat} \cup
  {PatternMat(rows, cols, type, seed) :
     rows \in 1..MaxRows, cols \in 1..MaxCols, type \in {CV_8UC1, CV_8UC3},
     seed \in PixelSeeds}

InitCodec ==
  /\ PubConstructed
  /\ SubConstructed
  /\ publisher_ = FALSE /\ subscriber_ = FALSE /\ system_id_ \in SystemIds
  /\ initialized_ = FALSE /\ last_received_image_ = EmptyMat /\ event_queue = <<>>
  /\ system_mode_ = HostMode /\ camera_still_mode_ = FALSE /\ crashed = FALSE
  /\ ctl = Returned("none", "void")
  /\ \E type \in {kCamera2Image, kCamera2ReturnPreImage}, mat \in CodecMats :
       snd = [pc |-> "codec_message", op |-> "codec", ret |-> "pending",
              msg |-> NoQueued, ipc |-> ImageMessage(type, mat)]
  /\ wire = <<>> /\ enq_log = <<>> /\ handled = <<>> /\ suppressed = 0
  /\ budget = MaxCalls
  /\ DetectorUnused

CodecSerialize ==
  /\ snd.pc = "codec_message"
  /\ snd' = [snd EXCEPT !.pc = "codec_frames",
                        !.msg = SerializeIpcMessageToZeroMQ(snd.ipc, system_id_, Now)]
  /\ UNCHANGED <<pubVars, subVars, ipcVars, ctl, histVars>>
  /\ UNCHANGED detVars

CodecBuild ==
  /\ snd.pc = "codec_frames"
  /\ \E garbage \in GarbageValues :
       LET frames == MessageFrames(snd.msg)
           built == BuildIpcMessageFromZeroMQData(frames[3], ParseProperties(frames[2]),
                                                  garbage)
       IN /\ snd' = [snd EXCEPT !.pc = "codec_built", !.ret = IF built.ok THEN "true" ELSE "false"]
          /\ last_received_image_' = built.msg.image
  /\ UNCHANGED <<publisher_, subscriber_, system_id_, initialized_, event_queue,
                 system_mode_, camera_still_mode_, crashed>>
  /\ UNCHANGED <<pubVars, subVars, ctl, histVars>>
  /\ UNCHANGED detVars

NextCodec == CodecSerialize \/ CodecBuild

SpecCodec == InitCodec /\ [][NextCodec]_vars

(***************************************************************************)
(* The dispatcher on its own: an initialized GolfSimIpcSystem in each      *)
(* system mode, whose subscriber thread receives what other systems        *)
(* publish and hands it to OnMessageReceived.                              *)
(***************************************************************************)
MaxDeliveries == 2

\* A system_mode_ value that is none of the enumerators.
InvalidMode == "invalid"

\* What a peer with the given id publishes for an IPC message.
PeerMessage(ipc_message, system_id) ==
  SerializeIpcMessageToZeroMQ(ipc_message, system_id, ClockStart)

\* The same message with one header key left out, or set to another value.
WithoutKey(msg, key) ==
  [msg EXCEPT !.properties = [k \in (DOMAIN msg.properties) \ {key} |-> msg.properties[k]]]

WithKey(msg, key, value) == [msg EXCEPT !.properties = MapPut(msg.properties, key, value)]

\* The three frames of a message whose header frame holds the given text.
WithHeaderText(msg, text) ==
  <<MessageFrames(msg)[1], TextFrame(text), MessageFrames(msg)[3]>>

PeerShutdown == PeerMessage(NewIpcMessage(kShutdown), OtherSystemId)

\* The header text of PeerShutdown:
\* {"Message_Type":"3","System_ID":"B","Timestamp":"8"}
PeerShutdownText == PropsStr(PeerShutdown.properties)

\* Well-formed messages of every type from another system, and one from a
\* system that uses this host's id.
WellFormedInputs ==
  {MessageFrames(PeerMessage(ipc_message, OtherSystemId)) :
     ipc_message \in {ControlMessage(c) : c \in ControlTypes \cup {kControlUnknown}}
                     \cup {NewIpcMessage(kShutdown), NewIpcMessage(kRequestForCamera2Image),
                           NewIpcMessage(kResults), ImageMessage(kCamera2Image, SmallMat),
                           ImageMessage(kCamera2ReturnPreImage, SmallMat)}}
  \cup {MessageFrames(PeerMessage(NewIpcMessage(kShutdown), HostSystemId))}

\* Shutdown messages whose header lacks a required key, or whose
\* Message_Type is Unknown, no integer, or no id of the enumeration.
RequiredKeys ==
  {kZeroMQSystemIdProperty, kZeroMQMessageTypeProperty, kZeroMQTimestampProperty}

BadTypeTexts == {<<"0">>, <<"x">>, <<>>, <<"7">>, <<"-", "1">>, <<"3", "x">>}

BadHeaderInputs ==
  {MessageFrames(WithoutKey(PeerShutdown, key)) : key \in RequiredKeys}
  \cup {MessageFrames(WithKey(PeerShutdown, kZeroMQMessageTypeProperty, text)) :
          text \in BadTypeTexts}

\* Header texts that are no complete flat object: the outer braces missing,
\* the last value unterminated, the last key unterminated, a bare token
\* after two valid pairs, a bare token alone.
MalformedTexts ==
  LET n == Len(PeerShutdownText)
      two == SubSeq(PeerShutdownText, 1, FindChar(PeerShutdownText, "T", 20) - 2)
  IN {SubSeq(PeerShutdownText, 2, n - 1),
      SubSeq(PeerShutdownText, 1, n - 2) \o <<"}">>,
      two \o <<"\"", "T", "i", "m", "e", "}">>,
      two \o <<"8", "}">>,
      <<"{", "x", "}">>}

MalformedInputs == {WithHeaderText(PeerShutdown, text) : text \in MalformedTexts}

DispatchInputs == WellFormedInputs \cup BadHeaderInputs \cup MalformedInputs

\* GolfSimIpcSystem as InitializeIPCSystem leaves it, in any mode.
InitDispatch ==
  /\ pub_context = TRUE /\ pub_socket = TRUE
  /\ pub_running = TRUE /\ pub_should_stop = FALSE
  /\ message_queue_ = <<>> /\ pub_thread = "loop" /\ pub_pending = <<>>
  /\ sub_context = TRUE /\ sub_socket = FALSE
  /\ sub_running = TRUE /\ sub_should_stop = FALSE
  /\ sub_thread = "start" /\ sub_subscribed = <<>> /\ inbox = <<>>
  /\ message_handler_ = "OnMessageReceived" /\ system_id_to_exclude_ = DefaultSystemId
  /\ topic_filters_ = <<kGolfSimTopicPrefix>>
  /\ publisher_ = TRUE /\ subscriber_ = TRUE /\ system_id_ = DefaultSystemId
  /\ initialized_ = TRUE /\ last_received_image_ = EmptyMat /\ event_queue = <<>>
  /\ system_mode_ \in SystemModes \cup {InvalidMode}
  /\ camera_still_mode_ \in BOOLEAN
  /\ crashed = FALSE
  /\ ctl = Returned("InitializeIPCSystem", "true")
  /\ snd = SndReturned("none", "void")
  /\ wire = <<>> /\ enq_log = <<>> /\ handled = <<>> /\ suppressed = 0
  /\ budget = MaxDeliveries
  /\ DetectorUnused

\* Another system publishes one of the inputs.
PeerSend ==
  /\ Connected
  /\ budget > 0
  /\ budget' = budget - 1
  /\ \E frames \in DispatchInputs : inbox' = Arrive(inbox, frames)
  /\ UNCHANGED <<sub_context, sub_socket, sub_running, sub_should_stop, sub_thread,
                 sub_subscribed, message_handler_, system_id_to_exclude_,
                 topic_filters_>>
  /\ UNCHANGED <<pubVars, ipcVars, ctl, snd, wire, enq_log, handled, suppressed>>
  /\ UNCHANGED detVars

NextDispatch == PeerSend \/ SubscriberThread

SpecDispatch == InitDispatch /\ [][NextDispatch]_vars

\* Messages of another system whose header names a type with a body and
\* whose body is not the struct of that type: an image body under a control
\* header, a control body under an image header, a body that is no msgpack
\* array under a results header.
BadBodyInputs ==
  LET img == PeerMessage(ImageMessage(kCamera2Image, SmallMat), OtherSystemId)
      ctrl == PeerMessage(ControlMessage(kClubChangeToPutter), OtherSystemId)
      results == PeerMessage(NewIpcMessage(kResults), OtherSystemId)
  IN {MessageFrames(WithKey(img, kZeroMQMessageTypeProperty,
                            NatToString(kControlMessage))),
      MessageFrames(WithKey(ctrl, kZeroMQMessageTypeProperty,
                            NatToString(kCamera2Image))),
      <<MessageFrames(results)[1], MessageFrames(results)[2], ExtraFrame>>}

\* A peer publishes a message, its body well formed or not.
PeerSendAnyBody ==
  /\ Connected
  /\ budget > 0
  /\ budget' = budget - 1
  /\ \E frames \in WellFormedInputs \cup BadBodyInputs : inbox' = Arrive(inbox, frames)
  /\ UNCHANGED <<sub_context, sub_socket, sub_running, sub_should_stop, sub_thread,
                 sub_subscribed, message_handler_, system_id_to_exclude_,
                 topic_filters_>>
  /\ UNCHANGED <<pubVars, ipcVars, ctl, snd, wire, enq_log, handled, suppressed>>
  /\ UNCHANGED detVars

NextLifetime == PeerSendAnyBody \/ SubscriberThread

SpecLifetime == InitDispatch /\ [][NextLifetime]_vars

(***************************************************************************)
(* ONNXRuntimeDetector: decoding of the output tensor and per-class        *)
(* non-maximum suppression.  Scores and thresholds are in hundredths.  A   *)
(* box coordinate is an exact fraction, kept as its numerator: horizontal  *)
(* values over XDen, vertical values over YDen.                            *)
(***************************************************************************)
num_predictions == 3
num_classes == 2
confidence_threshold == 25
nms_threshold == 45
input_width == 8
input_height == 4
XDen == 2 * input_width
YDen == 2 * input_height

Min2(a, b) == IF a < b THEN a ELSE b
Max2(a, b) == IF a > b THEN a ELSE b

\* Model-space boxes of the rows: three that overlap in a chain, and one
\* that reaches past the model input on both axes.
RowBoxes ==
  { [cx |-> 1, cy |-> 2, w |-> 4, h |-> 2],
    [cx |-> 2, cy |-> 2, w |-> 4, h |-> 2],
    [cx |-> 3, cy |-> 2, w |-> 4, h |-> 2],
    [cx |-> 7, cy |-> 3, w |-> 4, h |-> 4] }
RowScores == {20, 50, 90}
TensorRows == { [box |-> b, scores |-> sc] : b \in RowBoxes, sc \in [1..num_classes -> RowScores] }
ImageSizes == { [cols |-> 8, rows |-> 4], [cols |-> 16, rows |-> 2] }

\* The class loop of PostprocessYOLO: the first class holding the largest
\* score above zero; class 0 with score 0 when there is none.
RECURSIVE BestClass_LastTie(_, _, _, _)
BestClass_LastTie(scores, c, max_score, class_id) ==
  IF c > Len(scores)
  THEN [max_score |-> max_score, class_id |-> class_id]
  ELSE IF scores[c] >= max_score
       THEN BestClass_LastTie(scores, c + 1, scores[c], c - 1)
       ELSE BestClass_LastTie(scores, c + 1, max_score, class_id)
RECURSIVE BestClass(_, _, _, _)
BestClass(scores, c, max_score, class_id) ==
  IF c > Len(scores)
  THEN [max_score |-> max_score, class_id |-> class_id]
  ELSE IF scores[c] > max_score
       THEN BestClass(scores, c + 1, scores[c], c - 1)
       ELSE BestClass(scores, c + 1, max_score, class_id)
DecodeBox_Centered(box, img) ==
  [x |-> 2 * box.cx * img.cols, y |-> 2 * box.cy * img.rows,
   width |-> 2 * box.w * img.cols, height |-> 2 * box.h * img.rows]
\* bbox of a row: (cx - w/2) * img_scale_x and so on, with
\* img_scale_x = cols / input_width and img_scale_y = rows / input_height.
DecodeBox(box, img) ==
  [x |-> (2 * box.cx - box.w) * img.cols, y |-> (2 * box.cy - box.h) * img.rows,
   width |-> 2 * box.w * img.cols, height |-> 2 * box.h * img.rows]
RowEmits(row) == BestClass(row.scores, 1, 0, 0).max_score >= confidence_threshold
DecodeRow(row, img) ==
  LET best == BestClass(row.scores, 1, 0, 0)
  IN [bbox |-> DecodeBox(row.box, img), confidence |-> best.max_score,
      class_id |-> best.class_id]
\* The row loop of PostprocessYOLO: the candidates, in row order.
RECURSIVE DecodeRows(_, _)
DecodeRows(tensor, img) ==
  IF tensor = <<>> THEN <<>>
  ELSE LET rest == DecodeRows(SubSeq(tensor, 1, Len(tensor) - 1), img)
           row == tensor[Len(tensor)]
       IN IF RowEmits(row) THEN Append(rest, DecodeRow(row, img)) ELSE rest

\* Intersection over union of two boxes exceeds the threshold, which is in
\* hundredths; two boxes without area have no IoU above any threshold.
IOUAbove(a, b, threshold) ==
  LET ix == Max2(0, Min2(a.x + a.width, b.x + b.width) - Max2(a.x, b.x))
      iy == Max2(0, Min2(a.y + a.height, b.y + b.height) - Max2(a.y, b.y))
      inter == ix * iy
      union == a.width * a.height + b.width * b.height - inter
  IN union > 0 /\ inter * 100 > threshold * union

\* What std::sort may leave: every arrangement of the candidates in which
\* no candidate stands before one of greater confidence.
SortOutcomes(cands) ==
  LET n == Len(cands)
      perms == { p \in [1..n -> 1..n] : \A i, j \in 1..n : i # j => p[i] # p[j] }
  IN { [k \in 1..n |-> cands[p[k]]] : p \in
         { q \in perms : \A k \in 1..(n - 1) : cands[q[k]].confidence >= cands[q[k + 1]].confidence } }

Suppresses_AnyClass(kept, other) == IOUAbove(kept.bbox, other.bbox, nms_threshold)
\* The inner loop's test: same class and IoU above nms_threshold.
Suppresses(kept, other) ==
  kept.class_id = other.class_id /\ IOUAbove(kept.bbox, other.bbox, nms_threshold)
\* The loops of NonMaxSuppression from index i on.
RECURSIVE NmsLoop(_, _, _, _)
NmsLoop(dets, i, flags, kept) ==
  IF i > Len(dets) THEN [result |-> kept, suppressed |-> flags]
  ELSE IF flags[i] THEN NmsLoop(dets, i + 1, flags, kept)
       ELSE NmsLoop(dets, i + 1,
                    [j \in 1..Len(dets) |->
                       flags[j] \/ (j > i /\ Suppresses(dets[i], dets[j]))],
                    Append(kept, dets[i]))

\* A frame and an output tensor are given to the detector.
InitDetector ==
  /\ PubConstructed /\ SubConstructed /\ IpcUnused
  /\ ctl = Returned("none", "void")
  /\ snd = SndReturned("none", "void")
  /\ wire = <<>> /\ enq_log = <<>> /\ handled = <<>> /\ suppressed = 0 /\ budget = 0
  /\ image \in ImageSizes
  /\ output_tensor \in [1..num_predictions -> TensorRows]
  /\ detections = <<>> /\ nms_suppressed = <<>> /\ result = <<>>
  /\ det_pc = "postprocess"
  /\ PreprocessorUnused /\ FacadeUnused

\* PostprocessYOLO, with the NonMaxSuppression it ends in.
PostprocessYOLO ==
  /\ det_pc = "postprocess"
  /\ LET cands == DecodeRows(output_tensor, image)
     IN \E sorted \in SortOutcomes(cands) :
          LET nms == NmsLoop(sorted, 1, [j \in 1..Len(sorted) |-> FALSE], <<>>)
          IN /\ detections' = sorted
             /\ nms_suppressed' = nms.suppressed
             /\ result' = nms.result
  /\ det_pc' = "done"
  /\ UNCHANGED <<image, output_tensor, prepVars, facadeVars>>
  /\ UNCHANGED <<pubVars, subVars, ipcVars, ctl, snd, histVars>>

NextDetector == PostprocessYOLO
SpecDetector == InitDetector /\ [][NextDetector]_vars

(***************************************************************************)
(* ONNXRuntimeDetector: preprocessing.  Both paths start from the frame    *)
(* cv::resize gives them.  A tensor element is a byte over 255, kept as    *)
(* the pair of both: the scalar path multiplies by 1/255 and the vector    *)
(* path divides by 255 or multiplies by 1/255, which differ far below      *)
(* 1e-6.  An element also records whether the call under way wrote it.     *)
(***************************************************************************)
block_size == 64
Normalised(byte) == <<byte, 255>>
WrittenElement(byte) == [value |-> Normalised(byte), written |-> TRUE]
StaleElement(byte) == [value |-> Normalised(byte), written |-> FALSE]
Pixels(mat) == mat.width * mat.height
\* Byte k, counted from 0, of the interleaved frame data.
SrcByte(mat, k) == mat.pixels[(k \div 3) + 1][(k % 3) + 1]
\* output[k] = element, with k counted from 0.
Store(output, k, element) == [output EXCEPT ![k + 1] = element]

\* The loops of PreprocessImageStandard: element dst_idx of the tensor is
\* float_img[src_idx].
PreprocessImageStandardLoops(mat, output) ==
  LET W == mat.width
      H == mat.height
  IN [d \in 1..Len(output) |->
        LET dst_idx == d - 1
            c == dst_idx \div (H * W)
            h == (dst_idx % (H * W)) \div W
            w == dst_idx % W
            src_idx == h * W * 3 + w * 3 + c
        IN IF c < 3 THEN WrittenElement(SrcByte(mat, src_idx)) ELSE output[d]]

\* The scalar branch of PreprocessPipelineNEON for the pixels i + j on.
RECURSIVE NeonRemaining(_, _, _, _, _)
NeonRemaining(mat, output, i, j, remaining_pixels) ==
  IF ~(j < remaining_pixels /\ i + j < Pixels(mat)) THEN output
  ELSE LET pixels == Pixels(mat)
           b == SrcByte(mat, (i + j) * 3)
           g == SrcByte(mat, (i + j) * 3 + 1)
           r == SrcByte(mat, (i + j) * 3 + 2)
           o0 == Store(output, 0 * pixels + i + j, WrittenElement(r))
           o1 == Store(o0, 1 * pixels + i + j, WrittenElement(g))
           o2 == Store(o1, 2 * pixels + i + j, WrittenElement(b))
       IN NeonRemaining(mat, o2, i, j + 1, remaining_pixels)
\* The vector branch: eight bytes are loaded at pixel i, lanes 2, 1 and 0 of
\* their low half are stored for pixel i.
NeonVector(mat, output, i) ==
  LET pixels == Pixels(mat)
  IN IF (i + 3) * 3 < pixels * 3 /\ i < pixels
     THEN LET o0 == Store(output, 0 * pixels + i, WrittenElement(SrcByte(mat, i * 3 + 2)))
              o1 == Store(o0, 1 * pixels + i, WrittenElement(SrcByte(mat, i * 3 + 1)))
          IN Store(o1, 2 * pixels + i, WrittenElement(SrcByte(mat, i * 3)))
     ELSE output
\* The loop over i within one block.
RECURSIVE NeonBlock(_, _, _, _)
NeonBlock(mat, output, i, end) ==
  IF i >= end THEN output
  ELSE LET remaining_pixels == Min2(4, end - i)
       IN NeonBlock(mat,
                    IF remaining_pixels = 4 /\ i + 3 < Pixels(mat)
                    THEN NeonVector(mat, output, i)
                    ELSE NeonRemaining(mat, output, i, 0, remaining_pixels),
                    i + 4, end)
\* The loop over the blocks of PreprocessPipelineNEON.
RECURSIVE PreprocessPipelineNEON(_, _, _)
PreprocessPipelineNEON(mat, output, block) ==
  IF block >= Pixels(mat) THEN output
  ELSE PreprocessPipelineNEON(
         mat, NeonBlock(mat, output, block, Min2(block + block_size, Pixels(mat))),
         block + block_size)

\* Frames: the model's input size and a small one whose pixel count is no
\* multiple of four; one pixel differs from the rest.
FrameSizes == { [width |-> input_width, height |-> input_height],
                [width |-> 3, height |-> 2] }
FramePixels == { <<10, 20, 30>>, <<0, 0, 0>>, <<255, 128, 0>> }
ResizedFrames ==
  { [width |-> sz.width, height |-> sz.height,
     pixels |-> [k \in 1..(sz.width * sz.height) |-> IF k = at THEN p ELSE q]] :
      sz \in FrameSizes, at \in 1..(input_width * input_height), p \in FramePixels,
      q \in FramePixels }
\* What an earlier frame left in every element of the buffer.
StaleBytes == {0, 255}

InitPreprocess ==
  /\ PubConstructed /\ SubConstructed /\ IpcUnused
  /\ ctl = Returned("none", "void")
  /\ snd = SndReturned("none", "void")
  /\ wire = <<>> /\ enq_log = <<>> /\ handled = <<>> /\ suppressed = 0 /\ budget = 0
  /\ image = [cols |-> 0, rows |-> 0] /\ output_tensor = <<>> /\ detections = <<>>
  /\ nms_suppressed = <<>> /\ result = <<>>
  /\ FacadeUnused
  /\ resized \in ResizedFrames
  /\ \E stale \in StaleBytes :
       input_data = [k \in 1..(3 * Pixels(resized)) |-> StaleElement(stale)]
  /\ use_neon_preprocessing \in BOOLEAN
  /\ PoolUnused
  /\ det_pc = "preprocess"

PreprocessImageStandard ==
  /\ det_pc = "preprocess" /\ ~use_neon_preprocessing
  /\ input_data' = PreprocessImageStandardLoops(resized, input_data)
  /\ det_pc' = "preprocessed"
  /\ UNCHANGED <<resized, use_neon_preprocessing, poolVars, facadeVars>>
  /\ UNCHANGED <<image, output_tensor, detections, nms_suppressed, result>>
  /\ UNCHANGED <<pubVars, subVars, ipcVars, ctl, snd, histVars>>

\* PreprocessImageNEON in a build with __ARM_NEON.
PreprocessImageNEON ==
  /\ det_pc = "preprocess" /\ use_neon_preprocessing
  /\ input_data' = PreprocessPipelineNEON(resized, input_data, 0)
  /\ det_pc' = "preprocessed"
  /\ UNCHANGED <<resized, use_neon_preprocessing, poolVars, facadeVars>>
  /\ UNCHANGED <<image, output_tensor, detections, nms_suppressed, result>>
  /\ UNCHANGED <<pubVars, subVars, ipcVars, ctl, snd, histVars>>

NextPreprocess == PreprocessImageStandard \/ PreprocessImageNEON
SpecPreprocess == InitPreprocess /\ [][NextPreprocess]_vars

(***************************************************************************)
(* ONNXRuntimeDetector: Detect, called by several threads on one detector. *)
(* A call is taken in steps at the places where it touches what the        *)
(* threads share: the pool's lease flag and the two statistics.            *)
(***************************************************************************)
MaxThreads == 2
MaxDetectCalls == 3
DetThreads == 1..MaxThreads
\* Inference times a call can measure, in milliseconds.
InferenceTimes == {2, 4}
\* The frame of a call: a BGR frame, an empty one, one with a single channel.
FrameKinds == {"bgr", "empty", "gray"}
\* What the forward pass and the checks behind it can come to: detections,
\* an exception of the runtime, no output tensor, null output data, an empty
\* output shape, an output size that is not positive.
RunOutcomes == {"ok", "throws", "no_outputs", "null_data", "empty_shape", "bad_size"}

\* A fraction in lowest terms, as the pair of numerator and denominator.
RECURSIVE Gcd(_, _)
Gcd(a, b) == IF b = 0 THEN a ELSE Gcd(b, a % b)
Fraction(num, den) == LET g == Gcd(num, den) IN <<num \div g, den \div g>>
RECURSIVE SumOf(_)
SumOf(seq) == IF seq = <<>> THEN 0 ELSE seq[1] + SumOf(Tail(seq))

\* MemoryPool::GetInputBuffer: fails when the input buffer is leased, and
\* leases it otherwise.  lessee remembers for whom the flag was set.
PoolGetInputBuffer(pool, t) ==
  IF pool.input_in_use
  THEN [throws |-> TRUE, pool |-> pool]
  ELSE [throws |-> FALSE, pool |-> [pool EXCEPT !.input_in_use = TRUE, !.lessee = t]]
\* MemoryPool::ReleaseBuffers: clears the lease, whoever holds it.
PoolReleaseBuffers(pool) == [pool EXCEPT !.input_in_use = FALSE, !.lessee = 0]

\* ONNXRuntimeDetector::GetInputBuffer: the pool's buffer, or the thread's
\* own one when there is no pool or the pool's buffer is leased.
GetInputBuffer(pool, t) ==
  IF pool.present /\ ~PoolGetInputBuffer(pool, t).throws
  THEN [buffer |-> "arena", pool |-> PoolGetInputBuffer(pool, t).pool]
  ELSE [buffer |-> "fallback", pool |-> pool]
\* ONNXRuntimeDetector::ReleaseBuffers, as thread t calls it.
ReleaseBuffers(pool, t) ==
  IF pool.present THEN PoolReleaseBuffers(pool) ELSE pool

\* A thread outside Detect: what its last call was given and how it ended.
\* metrics is "none" when the caller passed no object, "untouched" while
\* Detect has written nothing to the object, "filled" after the timings.
NoCall ==
  [pc |-> "idle", frame |-> "none", metrics |-> "none", buffer |-> "none",
   leased |-> FALSE, failure |-> "none", ret |-> "none", inference_ms |-> 0]
\* Detect returns ret to thread t after the failure named.
DetectFails(call, failure, ret) ==
  [call EXCEPT !.pc = "idle", !.failure = failure, !.ret = ret]

\* The running mean as Detect computes it from what it reads.
MeanUpdate(prev_avg, total, call) ==
  LET current_time == IF call.metrics # "none" THEN call.inference_ms ELSE 0
  IN Fraction(prev_avg[1] * (total - 1) + current_time * prev_avg[2], prev_avg[2] * total)

InitDetect ==
  /\ PubConstructed /\ SubConstructed /\ IpcUnused
  /\ ctl = Returned("none", "void")
  /\ snd = SndReturned("none", "void")
  /\ wire = <<>> /\ enq_log = <<>> /\ handled = <<>> /\ suppressed = 0
  /\ budget = MaxDetectCalls
  /\ image = [cols |-> 0, rows |-> 0] /\ output_tensor = <<>> /\ detections = <<>>
  /\ nms_suppressed = <<>> /\ result = <<>> /\ det_pc = "none"
  /\ PreprocessorUnused
  /\ session_ \in BOOLEAN
  /\ \E present \in BOOLEAN :
       memory_pool_ = [present |-> present, input_in_use |-> FALSE, lessee |-> 0]
  /\ det_threads = [t \in DetThreads |-> NoCall]
  /\ total_inferences_ = 0 /\ avg_inference_time_ms_ = <<0, 1>>
  /\ inference_times = <<>>

\* Detect from its entry to the input buffer.
DetectBegin(t) ==
  /\ det_threads[t].pc = "idle" /\ budget > 0
  /\ \E frame \in FrameKinds, metrics \in {"none", "untouched"} :
       LET call == [NoCall EXCEPT !.frame = frame, !.metrics = metrics]
           got == GetInputBuffer(memory_pool_, t)
       IN IF frame = "empty"
          THEN /\ det_threads' = [det_threads EXCEPT ![t] = DetectFails(call, "empty_frame", "empty")]
               /\ UNCHANGED memory_pool_
          ELSE IF frame = "gray"
          THEN /\ det_threads' = [det_threads EXCEPT ![t] = DetectFails(call, "channels", "empty")]
               /\ UNCHANGED memory_pool_
          ELSE IF ~session_
          THEN /\ det_threads' = [det_threads EXCEPT ![t] = DetectFails(call, "no_session", "empty")]
               /\ UNCHANGED memory_pool_
          ELSE /\ det_threads' = [det_threads EXCEPT ![t] =
                                    [call EXCEPT !.pc = "run", !.buffer = got.buffer,
                                                 !.leased = (got.buffer = "arena")]]
               /\ memory_pool_' = got.pool
  /\ budget' = budget - 1
  /\ UNCHANGED <<session_, total_inferences_, avg_inference_time_ms_, inference_times>>
  /\ UNCHANGED <<image, output_tensor, detections, nms_suppressed, result, det_pc, prepVars>>
  /\ UNCHANGED <<pubVars, subVars, ipcVars, ctl, snd, wire, enq_log, handled, suppressed>>

\* Detect from the preprocessing to the metrics: the forward pass, the
\* checks of its output, the postprocessing, ReleaseBuffers, the timings.
DetectRun(t) ==
  /\ det_threads[t].pc = "run"
  /\ \E outcome \in RunOutcomes, time \in InferenceTimes :
       LET call == det_threads[t]
       IN IF outcome = "throws"
          THEN /\ det_threads' = [det_threads EXCEPT ![t] =
                                    DetectFails([call EXCEPT !.buffer = "none"], outcome, "exception")]
               /\ UNCHANGED <<memory_pool_, inference_times>>
          ELSE IF outcome # "ok"
          THEN /\ det_threads' = [det_threads EXCEPT ![t] =
                                    DetectFails([call EXCEPT !.buffer = "none"], outcome, "empty")]
               /\ UNCHANGED <<memory_pool_, inference_times>>
          ELSE /\ det_threads' = [det_threads EXCEPT ![t] =
                                    [call EXCEPT !.pc = "count", !.buffer = "none",
                                                 !.inference_ms = time,
                                                 !.metrics = IF call.metrics = "none"
                                                             THEN "none" ELSE "filled"]]
               /\ memory_pool_' = ReleaseBuffers(memory_pool_, t)
               /\ inference_times' = Append(inference_times, time)
  /\ UNCHANGED <<session_, total_inferences_, avg_inference_time_ms_, budget>>
  /\ UNCHANGED <<image, output_tensor, detections, nms_suppressed, result, det_pc, prepVars>>
  /\ UNCHANGED <<pubVars, subVars, ipcVars, ctl, snd, wire, enq_log, handled, suppressed>>

\* total_inferences_++
DetectCount(t) ==
  /\ det_threads[t].pc = "count"
  /\ total_inferences_' = total_inferences_ + 1
  /\ det_threads' = [det_threads EXCEPT ![t].pc = "average"]
  /\ UNCHANGED <<session_, memory_pool_, avg_inference_time_ms_, inference_times, budget>>
  /\ UNCHANGED <<image, output_tensor, detections, nms_suppressed, result, det_pc, prepVars>>
  /\ UNCHANGED <<pubVars, subVars, ipcVars, ctl, snd, wire, enq_log, handled, suppressed>>

\* The update of avg_inference_time_ms_ and the return of the detections.
DetectAverage(t) ==
  /\ det_threads[t].pc = "average"
  /\ avg_inference_time_ms_' =
       MeanUpdate(avg_inference_time_ms_, total_inferences_, det_threads[t])
  /\ det_threads' = [det_threads EXCEPT ![t].pc = "idle", ![t].ret = "detections"]
  /\ UNCHANGED <<session_, memory_pool_, total_inferences_, inference_times, budget>>
  /\ UNCHANGED <<image, output_tensor, detections, nms_suppressed, result, det_pc, prepVars>>
  /\ UNCHANGED <<pubVars, subVars, ipcVars, ctl, snd, wire, enq_log, handled, suppressed>>

Detect ==
  \E t \in DetThreads : DetectBegin(t) \/ DetectRun(t) \/ DetectCount(t) \/ DetectAverage(t)
NextDetect == Detect
SpecDetect == InitDetect /\ [][NextDetect]_vars

(***************************************************************************)
(* GsE6Response: the replies to the simulator.  A received message is the  *)
(* property tree read_json makes of it: a function from its keys to their   *)
(* values.  Type and SubType values are plain strings; a Challenge value   *)
(* is a sequence of characters.                                            *)
(***************************************************************************)
SHA256_DIGEST_LENGTH == 4
MaxChallengeLen == 2
GetKey ==
  << "k", "I", "v", "R", "I", "L", "M", "E", "q", "H", "a", "P", "P", "y",
     "l", "c", "A", "o", "O", "W", "s", "j", "K", "x", "h", "T", "R", "b",
     "x", "q", "W", "U", "R", "g", "5", "i", "D", "0", "N", "b", "i", "l",
     "m", "t", "7", "K", "Z", "8" >>
GetID ==
  << "3", "A", "1", "D", "3", "C", "B", "D", "-", "9", "F", "A", "B", "-",
     "4", "3", "2", "8", "-", "9", "1", "E", "6", "-", "C", "9", "7", "F",
     "7", "F", "C", "2", "9", "D", "C", "2" >>

\* pt.get<std::string>(key, default)
PtGet(pt, key, default) == IF key \in DOMAIN pt THEN pt[key] ELSE default

\* The digest: a stand-in for SHA256_Init, SHA256_Update and SHA256_Final,
\* which gives every text SHA256_DIGEST_LENGTH bytes that depend on each of
\* its characters and their places.
RECURSIVE DigestSum(_, _, _)
DigestSum(text, k, i) ==
  IF k > Len(text) THEN 7 * i
  ELSE (k + i) * Ord(text[k]) + DigestSum(text, k + 1, i)
SHA256(text) == [i \in 1..SHA256_DIGEST_LENGTH |-> DigestSum(text, 1, i) % 256]

HexDigits ==
  << "0", "1", "2", "3", "4", "5", "6", "7", "8", "9", "a", "b", "c", "d", "e", "f" >>
ByteToHex_Unpadded(byte) ==
  IF byte < 16 THEN <<HexDigits[byte + 1]>>
  ELSE <<HexDigits[(byte \div 16) + 1], HexDigits[(byte % 16) + 1]>>
\* sprintf(buffer, "%02x", hash[i])
ByteToHex(byte) == <<HexDigits[(byte \div 16) + 1], HexDigits[(byte % 16) + 1]>>
RECURSIVE HexOfBytes(_)
HexOfBytes(bytes) ==
  IF bytes = <<>> THEN <<>> ELSE ByteToHex(bytes[1]) \o HexOfBytes(Tail(bytes))
GenerateSHA256String(text) == HexOfBytes(SHA256(text))

\* A property tree of string values as one JSON object, its members in the
\* order they were put.
RECURSIVE JsonMembers(_)
JsonMembers(members) ==
  IF members = <<>> THEN <<>>
  ELSE <<"\"">> \o members[1][1] \o <<"\"", ":", "\"">> \o members[1][2] \o <<"\"">>
       \o (IF Len(members) > 1 THEN <<",">> ELSE <<>>) \o JsonMembers(Tail(members))
GenerateStringFromJsonTree(members) == <<"{">> \o JsonMembers(members) \o <<"}">>

\* What a Process function leaves: its return value, the response string,
\* the events it queued and the armed flag of the simulator interface.
E6Result(ret, response, events, armed) ==
  [ret |-> ret, response |-> response, events |-> events, armed |-> armed]

ProcessChallenge(pt, response, armed) ==
  LET challenge_from_e6 == PtGet(pt, "Challenge", <<>>)
      hash == GenerateSHA256String(challenge_from_e6 \o GetKey)
      root == << <<<<"T", "y", "p", "e">>, <<"C", "h", "a", "l", "l", "e", "n", "g", "e">>>>,
                 <<<<"D", "e", "v", "e", "l", "o", "p", "e", "r">>, GetID>>,
                 <<<<"H", "a", "s", "h">>, hash>> >>
      text == GenerateStringFromJsonTree(root)
  IN E6Result(text # <<>>, text, <<>>, armed)

ProcessAuthentication(pt, response, armed) ==
  E6Result(PtGet(pt, "Success", "") = "true", response, <<>>, armed)

\* A ProcessSimCommand that answers every SubType it does not know as a Ping.
ProcessSimCommand_PongByDefault(pt, response, armed) ==
  LET subtype == PtGet(pt, "SubType", "")
  IN IF subtype = "Arm" THEN E6Result(TRUE, <<>>, <<>>, TRUE)
     ELSE IF subtype = "Disarm" THEN E6Result(TRUE, <<>>, <<>>, FALSE)
     ELSE IF subtype \in {"EnvironmentDataModified", "PlayerDataModified"}
     THEN E6Result(TRUE, response, <<>>, armed)
     ELSE E6Result(TRUE, <<"{", "\"", "T", "y", "p", "e", "\"", ":", "\"", "P", "o", "n", "g",
                           "\"", "}">>, <<>>, armed)

ProcessSimCommand(pt, response, armed) ==
  LET subtype == PtGet(pt, "SubType", "")
      \* Details.ClubType of the tree, "" when there are no details
      club_str == PtGet(pt, "ClubType", "")
  IN IF subtype = "Ping"
     THEN E6Result(TRUE, <<"{", "\"", "T", "y", "p", "e", "\"", ":", "\"", "P", "o", "n", "g",
                           "\"", "}">>, <<>>, armed)
     ELSE IF subtype = "Arm" THEN E6Result(TRUE, <<>>, <<>>, TRUE)
     ELSE IF subtype = "Disarm" THEN E6Result(TRUE, <<>>, <<>>, FALSE)
     ELSE IF subtype = "EnvironmentDataModified" THEN E6Result(TRUE, response, <<>>, armed)
     ELSE IF subtype = "PlayerDataModified"
     THEN E6Result(TRUE, <<>>,
                   IF club_str = "" THEN <<>>
                   ELSE <<Event("ControlMessage", EmptyMat,
                                IF club_str = "Putter" THEN kClubChangeToPutter
                                ELSE kClubChangeToDriver)>>,
                   armed)
     ELSE E6Result(FALSE, response, <<>>, armed)

\* ProcessJson on what read_json made of the text; pt = "garbage" stands for
\* a text read_json throws on.  The return values of the Process functions
\* are dropped.
ProcessJson(pt, response, armed) ==
  IF pt = [garbage |-> TRUE] THEN E6Result(TRUE, response, <<>>, armed)
  ELSE LET message_str == PtGet(pt, "Type", "")
           done(r) == E6Result(TRUE, r.response, r.events, r.armed)
       IN IF message_str = "" THEN E6Result(FALSE, response, <<>>, armed)
          ELSE IF message_str = "Handshake" THEN done(ProcessChallenge(pt, response, armed))
          ELSE IF message_str = "Challenge" THEN done(ProcessChallenge(pt, response, armed))
          ELSE IF message_str = "Authentication"
          THEN done(ProcessAuthentication(pt, response, armed))
          ELSE IF message_str = "SimCommand" THEN done(ProcessSimCommand(pt, response, armed))
          ELSE IF message_str \in {"ACK", "Warning", "ShotError", "ShotComplete"}
          THEN E6Result(TRUE, <<>>, <<>>, armed)
          ELSE E6Result(FALSE, response, <<>>, armed)

\* The challenge texts of the messages.
RECURSIVE TextsUpTo(_, _)
TextsUpTo(chars, n) ==
  IF n = 0 THEN {<<>>}
  ELSE TextsUpTo(chars, n - 1) \cup
       { Append(t, ch) : t \in TextsUpTo(chars, n - 1), ch \in chars }
Challenges == TextsUpTo({"a", "b", "9"}, MaxChallengeLen)
E6Messages ==
  { [Type |-> type, Challenge |-> ch] : type \in {"Handshake", "Challenge"}, ch \in Challenges }
  \cup { [Type |-> type] : type \in {"Handshake", "Challenge", "ACK", "Warning", "ShotError",
                                      "ShotComplete", "Bogus"} }
  \cup { [Challenge |-> <<"a">>], [garbage |-> TRUE], [Type |-> "SimCommand"] }
  \cup { [Type |-> "Authentication", Success |-> ok] : ok \in {"true", "false"} }
  \cup { [Type |-> "SimCommand", SubType |-> sub] :
           sub \in {"Ping", "Arm", "Disarm", "EnvironmentDataModified", "PlayerDataModified",
                    "Bogus"} }
  \cup { [Type |-> "SimCommand", SubType |-> "PlayerDataModified", ClubType |-> club] :
           club \in {"Putter", "Driver"} }
\* What the caller's response string holds before the call.
E6Responses == {<<>>, <<"x">>}

E6Call(pc, pt, response, armed, ret) ==
  [pc |-> pc, op |-> "ProcessJson", ret |-> ret, pt |-> pt, response |-> response,
   armed |-> armed]

InitE6 ==
  /\ PubConstructed /\ SubConstructed /\ IpcUnused
  /\ ctl = Returned("none", "void")
  /\ \E pt \in E6Messages, response \in E6Responses, armed \in BOOLEAN :
       snd = E6Call("e6_message", pt, response, armed, "pending")
  /\ wire = <<>> /\ enq_log = <<>> /\ handled = <<>> /\ suppressed = 0 /\ budget = 0
  /\ DetectorUnused

E6ProcessJson ==
  /\ snd.pc = "e6_message"
  /\ LET r == ProcessJson(snd.pt, snd.response, snd.armed)
     IN /\ snd' = E6Call("e6_done", snd.pt, r.response, r.armed,
                         IF r.ret THEN "true" ELSE "false")
        /\ event_queue' = event_queue \o r.events
  /\ UNCHANGED <<publisher_, subscriber_, system_id_, initialized_, last_received_image_,
                 system_mode_, camera_still_mode_, crashed>>
  /\ UNCHANGED <<pubVars, subVars, ctl, histVars>>
  /\ UNCHANGED detVars

NextE6 == E6ProcessJson
SpecE6 == InitE6 /\ [][NextE6]_vars

(***************************************************************************)
(* ZeroMQSubscriber: topic filters set and removed by the client while the *)
(* subscriber is started and stopped.                                      *)
(***************************************************************************)
\* seq without the first of its elements equal to x.
RECURSIVE RemoveFirst(_, _)
RemoveFirst(seq, x) ==
  IF seq = <<>> THEN <<>>
  ELSE IF Head(seq) = x THEN Tail(seq)
       ELSE <<Head(seq)>> \o RemoveFirst(Tail(seq), x)

\* Unsubscribe(topic_filter): std::find and erase on the recorded filters,
\* and, when there is a socket, one unsubscribe, which takes one instance of
\* the filter off the socket.
Unsubscribe(filters, subscribed, has_socket, topic_filter) ==
  [filters |-> RemoveFirst(filters, topic_filter),
   subscribed |-> IF has_socket THEN RemoveFirst(subscribed, topic_filter) ELSE subscribed]

\* The filters the client uses.
ClientFilters == {kGolfSimTopicPrefix, kGolfSimResultsTopic}
\* The client between calls, back from Subscribe or Unsubscribe of a filter.
FilterReturned(op, topic_filter) ==
  [pc |-> "idle", op |-> op, ret |-> "void", topic_filter |-> topic_filter]

ClientSubscribe ==
  /\ ctl.pc = "idle" /\ budget > 0
  /\ \E f \in ClientFilters :
       LET done == Subscribe(topic_filters_, sub_subscribed, sub_socket, f)
       IN /\ topic_filters_' = done.filters
          /\ sub_subscribed' = done.subscribed
          /\ ctl' = FilterReturned("Subscribe", f)
  /\ budget' = budget - 1
  /\ UNCHANGED <<sub_context, sub_socket, sub_running, sub_should_stop, sub_thread, inbox,
                 message_handler_, system_id_to_exclude_>>
  /\ UNCHANGED <<pubVars, ipcVars, snd, wire, enq_log, handled, suppressed>>
  /\ UNCHANGED detVars

ClientUnsubscribe ==
  /\ ctl.pc = "idle" /\ budget > 0
  /\ \E f \in ClientFilters :
       LET done == Unsubscribe(topic_filters_, sub_subscribed, sub_socket, f)
       IN /\ topic_filters_' = done.filters
          /\ sub_subscribed' = done.subscribed
          /\ ctl' = FilterReturned("Unsubscribe", f)
  /\ budget' = budget - 1
  /\ UNCHANGED <<sub_context, sub_socket, sub_running, sub_should_stop, sub_thread, inbox,
                 message_handler_, system_id_to_exclude_>>
  /\ UNCHANGED <<pubVars, ipcVars, snd, wire, enq_log, handled, suppressed>>
  /\ UNCHANGED detVars

NextSubscribe ==
  \/ ClientSubscribe \/ ClientUnsubscribe
  \/ ClientSubStart \/ ClientSubStartEnd
  \/ ClientSubStop \/ ClientSubStopJoin \/ ClientSubStopEnd
  \/ SubThreadInit \/ SubThreadLoop \/ SubThreadTimeout
SpecSubscribe == InitTransport /\ [][NextSubscribe]_vars

(***************************************************************************)
(* The header frame on its own: the publisher thread builds the text of a  *)
(* message's properties and the subscriber parses the frame it receives.   *)
(* snd.msg.properties is the map, wire holds the frame, handled the map    *)
(* the subscriber hands to the handler.                                    *)
(***************************************************************************)
MaxKeyLen == 1
MaxValueLen == 2
MaxHeaderKeys == 2

\* Characters of keys and values: a letter and the punctuation of the
\* header syntax, without the double quote.
HeaderChars == {"a", ",", ":", "{", "}", " "}

\* The property maps of up to MaxHeaderKeys entries.
HeaderMaps ==
  UNION { [ks -> TextsUpTo(HeaderChars, MaxValueLen)] :
            ks \in { s \in SUBSET TextsUpTo(HeaderChars, MaxKeyLen) :
                       Cardinality(s) <= MaxHeaderKeys } }

InitHeader ==
  /\ PubConstructed /\ SubConstructed /\ IpcUnused
  /\ ctl = Returned("none", "void")
  /\ \E properties \in HeaderMaps :
       snd = [pc |-> "header_map", op |-> "header", ret |-> "pending",
              msg |-> [NoQueued EXCEPT !.properties = properties],
              ipc |-> NewIpcMessage(kUnknown)]
  /\ wire = <<>> /\ enq_log = <<>> /\ handled = <<>> /\ suppressed = 0 /\ budget = 0
  /\ DetectorUnused

\* PublisherThread makes the second frame of the message.
HeaderBuild ==
  /\ snd.pc = "header_map"
  /\ snd' = [snd EXCEPT !.pc = "header_frame"]
  /\ wire' = <<[frame |-> MessageFrames(snd.msg)[2], more |-> SendMore(2),
                id |-> 0, part |-> 2]>>
  /\ UNCHANGED <<pubVars, subVars, ipcVars, ctl, enq_log, handled, suppressed, budget>>
  /\ UNCHANGED detVars

\* SubscriberThread parses the second frame it received.
HeaderParse ==
  /\ snd.pc = "header_frame"
  /\ snd' = [snd EXCEPT !.pc = "header_parsed", !.ret = "void"]
  /\ handled' = <<[properties |-> ParseProperties(wire[1].frame)]>>
  /\ UNCHANGED <<pubVars, subVars, ipcVars, ctl, wire, enq_log, suppressed, budget>>
  /\ UNCHANGED detVars

NextHeader == HeaderBuild \/ HeaderParse

SpecHeader == InitHeader /\ [][NextHeader]_vars

(***************************************************************************)
(* ZeroMQSubscriber: the accesses to topic_filters_.  Subscribe and        *)
(* Unsubscribe are taken in two steps, entering the access to the list and *)
(* leaving it, and so is the start of SubscriberThread: the socket is made *)
(* and connected, then the list is read under topic_mutex_.                *)
(***************************************************************************)
\* The control thread inside Subscribe or Unsubscribe, at its list access.
FilterCall(pc, op, topic_filter) ==
  [pc |-> pc, op |-> op, ret |-> "pending", topic_filter |-> topic_filter]

\* The control thread is inside push_back, or inside find and erase.
InListAccess == ctl.pc \in {"subscribe_list", "unsubscribe_list"}

\* What the call under way makes of the list.
ListAfterCall ==
  IF ctl.pc = "subscribe_list"
  THEN Subscribe(topic_filters_, sub_subscribed, sub_socket, ctl.topic_filter).filters
  ELSE Unsubscribe(topic_filters_, sub_subscribed, sub_socket, ctl.topic_filter).filters

ClientSubscribeBegin ==
  /\ ctl.pc = "idle" /\ budget > 0
  /\ \E f \in ClientFilters : ctl' = FilterCall("subscribe_list", "Subscribe", f)
  /\ budget' = budget - 1
  /\ UNCHANGED <<pubVars, subVars, ipcVars, snd, wire, enq_log, handled, suppressed>>
  /\ UNCHANGED detVars

ClientSubscribeEnd ==
  /\ ctl.pc = "subscribe_list"
  /\ LET done == Subscribe(topic_filters_, sub_subscribed, sub_socket, ctl.topic_filter)
     IN /\ topic_filters_' = done.filters
        /\ sub_subscribed' = done.subscribed
  /\ ctl' = FilterReturned("Subscribe", ctl.topic_filter)
  /\ UNCHANGED <<sub_context, sub_socket, sub_running, sub_should_stop, sub_thread, inbox,
                 message_handler_, system_id_to_exclude_>>
  /\ UNCHANGED <<pubVars, ipcVars, snd, histVars>>
  /\ UNCHANGED detVars

ClientUnsubscribeBegin ==
  /\ ctl.pc = "idle" /\ budget > 0
  /\ \E f \in ClientFilters : ctl' = FilterCall("unsubscribe_list", "Unsubscribe", f)
  /\ budget' = budget - 1
  /\ UNCHANGED <<pubVars, subVars, ipcVars, snd, wire, enq_log, handled, suppressed>>
  /\ UNCHANGED detVars

ClientUnsubscribeEnd ==
  /\ ctl.pc = "unsubscribe_list"
  /\ LET done == Unsubscribe(topic_filters_, sub_subscribed, sub_socket, ctl.topic_filter)
     IN /\ topic_filters_' = done.filters
        /\ sub_subscribed' = done.subscribed
  /\ ctl' = FilterReturned("Unsubscribe", ctl.topic_filter)
  /\ UNCHANGED <<sub_context, sub_socket, sub_running, sub_should_stop, sub_thread, inbox,
                 message_handler_, system_id_to_exclude_>>
  /\ UNCHANGED <<pubVars, ipcVars, snd, histVars>>
  /\ UNCHANGED detVars

\* SubscriberThread up to its lock_guard: the socket is made and connected.
SubThreadConnect ==
  /\ sub_thread = "start"
  /\ \E connect_ok \in BOOLEAN :
       sub_thread' = IF connect_ok THEN "filters" ELSE "done"
  /\ sub_socket' = TRUE
  /\ sub_subscribed' = <<>>
  /\ inbox' = <<>>
  /\ UNCHANGED <<sub_context, sub_running, sub_should_stop, message_handler_,
                 system_id_to_exclude_, topic_filters_>>
  /\ UNCHANGED <<pubVars, ipcVars, ctl, snd, histVars>>
  /\ UNCHANGED detVars

\* SubscriberThread under its lock_guard: the filters of the list are set on
\* the socket.  A list that the control thread is changing meanwhile is read
\* as it was or as it will be.
SubThreadApplyFilters ==
  /\ sub_thread = "filters"
  /\ \E seen \in IF InListAccess THEN {topic_filters_, ListAfterCall}
                 ELSE {topic_filters_} :
       sub_subscribed' = sub_subscribed \o InitialSubscriptions(seen)
  /\ sub_thread' = "loop"
  /\ UNCHANGED <<sub_context, sub_socket, sub_running, sub_should_stop, inbox,
                 message_handler_, system_id_to_exclude_, topic_filters_>>
  /\ UNCHANGED <<pubVars, ipcVars, ctl, snd, histVars>>
  /\ UNCHANGED detVars

NextFilterAccess ==
  \/ ClientSubscribeBegin \/ ClientSubscribeEnd
  \/ ClientUnsubscribeBegin \/ ClientUnsubscribeEnd
  \/ ClientSubStart \/ ClientSubStartEnd
  \/ SubThreadConnect \/ SubThreadApplyFilters \/ SubThreadLoop \/ SubThreadTimeout

SpecFilterAccess == InitTransport /\ [][NextFilterAccess]_vars

(***************************************************************************)
(* The publisher under fair scheduling: its thread leaves its set-up, and  *)
(* in its loop takes the message at the front of a queue that is not       *)
(* empty (wait_for returns on the notify or after 100 ms at the latest).   *)
(***************************************************************************)
\* The inner while of PublisherThread takes the front message.
PubThreadTakes ==
  /\ pub_thread = "loop"
  /\ PubHasWork(message_queue_, pub_should_stop)
  /\ message_queue_' = Tail(message_queue_)

SpecPublishLive ==
  /\ SpecTransport
  /\ WF_pub_thread(PubThreadAdvances)
  /\ WF_message_queue_(PubThreadTakes)

(***************************************************************************)
(* InitializeIPCSystem with an exception after the publisher started.      *)
(* subscriber_->Start() catches zmq::error_t only: a std::system_error of  *)
(* the std::thread constructor leaves it and reaches the catch of          *)
(* InitializeIPCSystem, which returns false and stops nothing.             *)
(***************************************************************************)
IpcInitSubStartThrows ==
  /\ ctl.pc = "init_sub"
  /\ sub_should_stop' = FALSE
  /\ sub_context' = TRUE
  /\ UNCHANGED <<sub_socket, sub_running, sub_thread, sub_subscribed, inbox,
                 message_handler_, system_id_to_exclude_, topic_filters_>>
  /\ ctl' = Returned("InitializeIPCSystem", "false")
  /\ UNCHANGED <<pubVars, ipcVars, snd, histVars>>
  /\ UNCHANGED detVars

NextInitFaults ==
  \/ Next
  \/ IpcInitSubStartThrows

SpecInitFaults == Init /\ [][NextInitFaults]_vars

(***************************************************************************)
(* ONNXRuntimeDetector::Detect: the checks of the output tensor before     *)
(* PostprocessYOLO.  The session's output holds Len(output_tensor) rows of *)
(* data_width floats, its shape is [1, data_width, rows]; a session is     *)
(* free to return fewer or more rows than num_predictions.                 *)
(***************************************************************************)
data_width == 4 + num_classes
OutputShape(tensor) == <<1, data_width, Len(tensor)>>
RECURSIVE Accumulate(_, _)
Accumulate(shape, init) ==
  IF shape = <<>> THEN init ELSE Accumulate(Tail(shape), init * Head(shape))
OutputSize(tensor) == Accumulate(OutputShape(tensor), 1)

\* The rows of the outputs of this part: two boxes, two score vectors.
ShapeRows ==
  { r \in TensorRows : r.box.cx \in {1, 7} /\ r.scores \in {[c \in 1..num_classes |-> 20],
                                                            [c \in 1..num_classes |-> 90]} }
MaxOutputRows == num_predictions + 1

InitOutputShape ==
  /\ PubConstructed /\ SubConstructed /\ IpcUnused
  /\ ctl = Returned("none", "void")
  /\ snd = SndReturned("none", "void")
  /\ wire = <<>> /\ enq_log = <<>> /\ handled = <<>> /\ suppressed = 0 /\ budget = 0
  /\ image \in ImageSizes
  /\ \E n \in 0..MaxOutputRows : output_tensor \in [1..n -> ShapeRows]
  /\ detections = <<>> /\ nms_suppressed = <<>> /\ result = <<>>
  /\ det_pc = "check_output"
  /\ PreprocessorUnused /\ FacadeUnused

\* Detect after session_->Run: an empty shape or a size of zero or less
\* returns no detections, every other output goes to PostprocessYOLO.
DetectCheckOutput ==
  /\ det_pc = "check_output"
  /\ det_pc' = IF OutputShape(output_tensor) = <<>> \/ OutputSize(output_tensor) <= 0
               THEN "rejected" ELSE "read_rows"
  /\ UNCHANGED <<image, output_tensor, detections, nms_suppressed, result,
                 prepVars, facadeVars>>
  /\ UNCHANGED <<pubVars, subVars, ipcVars, ctl, snd, histVars>>

\* The last float PostprocessYOLO reads, counted from 0: its loops go over
\* num_predictions rows of data_width floats whatever output_size is.
HighestIndexRead == num_predictions * data_width - 1

\* What the row loop reads: the rows of the tensor, and past its end
\* whatever the memory behind the buffer holds.
RowsRead(tensor) ==
  { rows \in [1..num_predictions -> ShapeRows] :
      \A i \in 1..num_predictions : i <= Len(tensor) => rows[i] = tensor[i] }

\* PostprocessYOLO on the accepted output: a read past the buffer gives any
\* row or ends the process.
PostprocessYOLOReads ==
  /\ det_pc = "read_rows"
  /\ \/ /\ HighestIndexRead >= OutputSize(output_tensor)
        /\ det_pc' = "fault"
        /\ UNCHANGED <<detections, nms_suppressed, result>>
     \/ \E rows \in RowsRead(output_tensor) :
          \E sorted \in SortOutcomes(DecodeRows(rows, image)) :
            LET nms == NmsLoop(sorted, 1, [j \in 1..Len(sorted) |-> FALSE], <<>>)
            IN /\ detections' = sorted
               /\ nms_suppressed' = nms.suppressed
               /\ result' = nms.result
               /\ det_pc' = "done"
  /\ UNCHANGED <<image, output_tensor, prepVars, facadeVars>>
  /\ UNCHANGED <<pubVars, subVars, ipcVars, ctl, snd, histVars>>

NextOutputShape ==
  \/ DetectCheckOutput
  \/ PostprocessYOLOReads

SpecOutputShape == InitOutputShape /\ [][NextOutputShape]_vars

(***************************************************************************)
(* PreprocessingThreadPool, in a build with __ARM_NEON.  A task is the     *)
(* index of its image in the batch; its slot of the output buffer is       *)
(* "stale" before a worker writes to it, "partial" while                   *)
(* PreprocessPipelineNEON is writing it and "done" after.                  *)
(***************************************************************************)
MaxPoolThreads == 2
MaxBatch == 3
WorkerWaiting == [pc |-> "wait", task |-> 0]

InitPool ==
  /\ PubConstructed /\ SubConstructed /\ IpcUnused
  /\ ctl = Returned("none", "void")
  /\ snd = SndReturned("none", "void")
  /\ wire = <<>> /\ enq_log = <<>> /\ handled = <<>> /\ suppressed = 0 /\ budget = 0
  /\ image = [cols |-> 0, rows |-> 0] /\ output_tensor = <<>> /\ detections = <<>>
  /\ nms_suppressed = <<>> /\ result = <<>> /\ det_pc = "none"
  /\ resized = <<>> /\ input_data = <<>> /\ use_neon_preprocessing = FALSE
  /\ FacadeUnused
  /\ tasks_ = <<>>
  /\ \E num_threads \in 1..MaxPoolThreads :
       workers_ = [w \in 1..num_threads |-> WorkerWaiting]
  /\ \E images \in 0..MaxBatch : output_buffer = [i \in 1..images |-> "stale"]
  /\ batch_pc = "idle"

\* PreprocessBatch: one task per image is pushed under the lock, then
\* notify_all.
PreprocessBatchPush ==
  /\ batch_pc = "idle"
  /\ tasks_' = tasks_ \o [i \in 1..Len(output_buffer) |-> i]
  /\ batch_pc' = "poll"
  /\ UNCHANGED <<workers_, output_buffer>>
  /\ UNCHANGED <<resized, input_data, use_neon_preprocessing, facadeVars>>
  /\ UNCHANGED <<image, output_tensor, detections, nms_suppressed, result, det_pc>>
  /\ UNCHANGED <<pubVars, subVars, ipcVars, ctl, snd, histVars>>

\* PreprocessBatch: while (!tasks_.empty()) sleep; the call returns once it
\* reads the queue empty.
PreprocessBatchPoll ==
  /\ batch_pc = "poll"
  /\ tasks_ = <<>>
  /\ batch_pc' = "returned"
  /\ UNCHANGED <<tasks_, workers_, output_buffer>>
  /\ UNCHANGED <<resized, input_data, use_neon_preprocessing, facadeVars>>
  /\ UNCHANGED <<image, output_tensor, detections, nms_suppressed, result, det_pc>>
  /\ UNCHANGED <<pubVars, subVars, ipcVars, ctl, snd, histVars>>

\* WorkerThread: the wait ends on a task, which is taken off the queue.
WorkerTake(w) ==
  /\ workers_[w].pc = "wait"
  /\ tasks_ # <<>>
  /\ workers_' = [workers_ EXCEPT ![w] = [pc |-> "process", task |-> Head(tasks_)]]
  /\ tasks_' = Tail(tasks_)
  /\ UNCHANGED <<batch_pc, output_buffer>>
  /\ UNCHANGED <<resized, input_data, use_neon_preprocessing, facadeVars>>
  /\ UNCHANGED <<image, output_tensor, detections, nms_suppressed, result, det_pc>>
  /\ UNCHANGED <<pubVars, subVars, ipcVars, ctl, snd, histVars>>

\* WorkerThread: PreprocessPipelineNEON starts to write the task's slot.
WorkerProcess(w) ==
  /\ workers_[w].pc = "process"
  /\ output_buffer' = [output_buffer EXCEPT ![workers_[w].task] = "partial"]
  /\ workers_' = [workers_ EXCEPT ![w].pc = "writing"]
  /\ UNCHANGED <<tasks_, batch_pc>>
  /\ UNCHANGED <<resized, input_data, use_neon_preprocessing, facadeVars>>
  /\ UNCHANGED <<image, output_tensor, detections, nms_suppressed, result, det_pc>>
  /\ UNCHANGED <<pubVars, subVars, ipcVars, ctl, snd, histVars>>

\* WorkerThread: PreprocessPipelineNEON returns, the worker waits again.
WorkerFinish(w) ==
  /\ workers_[w].pc = "writing"
  /\ output_buffer' = [output_buffer EXCEPT ![workers_[w].task] = "done"]
  /\ workers_' = [workers_ EXCEPT ![w] = WorkerWaiting]
  /\ UNCHANGED <<tasks_, batch_pc>>
  /\ UNCHANGED <<resized, input_data, use_neon_preprocessing, facadeVars>>
  /\ UNCHANGED <<image, output_tensor, detections, nms_suppressed, result, det_pc>>
  /\ UNCHANGED <<pubVars, subVars, ipcVars, ctl, snd, histVars>>

WorkerThread ==
  \E w \in 1..Len(workers_) : WorkerTake(w) \/ WorkerProcess(w) \/ WorkerFinish(w)

PreprocessBatch == PreprocessBatchPush \/ PreprocessBatchPoll

NextPool ==
  \/ PreprocessBatch
  \/ WorkerThread

SpecPool == InitPool /\ [][NextPool]_vars

(***************************************************************************)
(* Properties.                                                             *)
(***************************************************************************)
\* The System_ID a received header frame carries, NoString when it has none.
HeaderSystemId(frame) ==
  LET properties == ParseProperties(frame)
  IN IF kZeroMQSystemIdProperty \in DOMAIN properties
     THEN properties[kZeroMQSystemIdProperty]
     ELSE NoString

\* The message at the front of the subscriber socket has a header frame whose
\* System_ID is this process's id: the id it has now, or the id its
\* subscriber was told to exclude.
SelfMessageWaiting ==
  /\ sub_thread = "recv"
  /\ inbox # <<>>
  /\ Len(Head(inbox).frames) >= 2
  /\ HeaderSystemId(Head(inbox).frames[2]) \in
       {system_id_, system_id_to_exclude_} \ {NoString}

\* C1: a received message whose header System_ID is the receiving process's
\* own id puts no event on the host event queue and stores no frame, whatever
\* its type and whatever else runs at the time; the subscriber takes it from
\* the socket and goes on.
C1_SelfSuppression ==
  [][SelfMessageWaiting =>
       /\ event_queue' = event_queue
       /\ last_received_image_' = last_received_image_]_vars

\* C1, reached: InitializeIPCSystem and one SendIpcMessage are all that was
\* called, SendMessage returned true, and the subscriber has taken the
\* message and dropped it for its System_ID with no event queued.
C1_Witness ==
  /\ budget = MaxCalls - 2
  /\ snd = SndReturned("SendMessage", "true")
  /\ Len(wire) = 3
  /\ suppressed = 1
  /\ handled = <<>>
  /\ event_queue = <<>>

\* C2: the frames on the publisher socket come in threes, the topic, header
\* and payload of one queued message with the more-flag set on the first two
\* and clear on the third, so that no multi-part message holds frames of two
\* queued messages.  (A message none of whose frames was sent is not counted
\* against the claim.)
C2_ThreeFramesPerMessage ==
  /\ Len(wire) % 3 = 0
  /\ \A i \in 1..Len(wire) :
       LET k == ((i - 1) % 3) + 1
       IN /\ wire[i].part = k
          /\ wire[i].more = (k < 3)
          /\ wire[i].id = wire[i - k + 1].id
          /\ wire[i].frame = MessageFrames(enq_log[wire[i].id])[k]

\* C3: messages are put on the socket in the order in which SendMessage
\* appended them to the send queue: along the wire the frames are those of
\* queued messages, in queue order, each message at most once.
C3_PublishOrder ==
  /\ \A i \in 1..Len(wire) :
       /\ wire[i].id \in 1..Len(enq_log)
       /\ wire[i].frame = MessageFrames(enq_log[wire[i].id])[wire[i].part]
  /\ \A i \in 1..(Len(wire) - 1) :
       \/ wire[i].id < wire[i + 1].id
       \/ wire[i].id = wire[i + 1].id /\ wire[i].part < wire[i + 1].part

\* C3, reached: two different messages were queued and the frames of both
\* are on the wire.
C3_Witness ==
  /\ Len(enq_log) >= 2
  /\ enq_log[1] # enq_log[2]
  /\ \E i, j \in 1..Len(wire) : wire[i].id = 1 /\ wire[j].id = 2 /\ wire[j].part = 3

\* C4: the handler is invoked only with the frames of a multi-part message of
\* exactly three frames.
C4_OnlyThreeFrameMessagesHandled ==
  \A i \in 1..Len(handled) : handled[i].total = 3 /\ handled[i].first = 1

\* Stop() has set the stop flag and returned, and Start() was not called since.
PubStopReturned ==
  pub_should_stop /\ ctl.pc \notin {"pub_stop_join", "pub_stop_end"}
SubStopReturned ==
  sub_should_stop /\ ctl.pc \notin {"sub_stop_join", "sub_stop_end"}

\* C5: once Stop() has returned, IsRunning() is false, the thread is joined
\* and socket and context are gone; a socket never outlives its context; and
\* no handler is invoked after the subscriber's Stop() has returned.
C5_OrderlyShutdown ==
  /\ [](PubStopReturned =>
          ~pub_running /\ pub_thread = "none" /\ ~pub_socket /\ ~pub_context)
  /\ [](SubStopReturned =>
          ~sub_running /\ sub_thread = "none" /\ ~sub_socket /\ ~sub_context)
  /\ [](pub_socket => pub_context)
  /\ [](sub_socket => sub_context)
  /\ [][SubStopReturned => handled' = handled]_vars

\* C5, reached: both were running, frames went out and a handler ran, and
\* Stop() has returned on both.
C5_Witness ==
  /\ PubStopReturned /\ SubStopReturned
  /\ ctl.pc = "idle"
  /\ wire # <<>>
  /\ handled # <<>>

C7_SendMessage ==
  /\ [](snd.pc \in {"send", "push"} => ENABLED (SendMessageCheck \/ SendMessageEnqueue))
  /\ [][/\ (snd.pc = "send" /\ snd' # snd) =>
             /\ message_queue_' = message_queue_
             /\ IF pub_running THEN snd'.pc = "push"
                ELSE snd' = SndReturned("SendMessage", "false")
        /\ (snd.pc = "push" /\ snd' # snd) =>
             /\ Len(message_queue_') = Len(message_queue_) + 1
             /\ SubSeq(message_queue_', 1, Len(message_queue_)) = message_queue_
             /\ EntryMessage(message_queue_'[Len(message_queue_')]) = snd.msg
             /\ snd' = SndReturned("SendMessage", "true")]_vars

\* C7, reached: a call was accepted and queued while the publisher ran, and
\* a later call on the stopped publisher returned false.
C7_Witness ==
  /\ snd = SndReturned("SendMessage", "false")
  /\ enq_log # <<>>
  /\ PubStopReturned

\* The publisher thread ended though nobody asked it to: its bind failed.
BindFailed == pub_thread = "done" /\ ~pub_should_stop

\* C8: with the publisher's bind failed by the time publisher_->Start() is
\* over, InitializeIPCSystem returns false there and initialized_ is false.
C8_BindFailureFailsInitialize ==
  [][(BindFailed /\ ctl.pc = "init_pub_sleep" /\ ctl' # ctl) =>
       /\ ctl' = Returned("InitializeIPCSystem", "false")
       /\ ~initialized_']_vars

\* C9: the frame built from the serialized form of an image message has the
\* rows, cols, pixel type and bytes of the frame in the message.
C9_FrameIntegrity ==
  snd.pc = "codec_built" =>
    /\ snd.ret = "true"
    /\ last_received_image_.rows = snd.ipc.image.rows
    /\ last_received_image_.cols = snd.ipc.image.cols
    /\ last_received_image_.type = snd.ipc.image.type
    /\ last_received_image_.data = snd.ipc.image.data

\* C9, reached: a three-channel frame of one row and two columns went
\* through and came back.
C9_Witness ==
  /\ snd.pc = "codec_built"
  /\ snd.ipc.image.rows = 1 /\ snd.ipc.image.cols = 2
  /\ snd.ipc.image.type = CV_8UC3
  /\ Len(last_received_image_.data) = 6

\* The header copy in a serialized body.
BodyHeader(data) == ConvertBodyHeader(Raw(data), UnpackArray(data).n, 0)

\* C10: what SendIpcMessage hands to the publisher has exactly the header
\* keys System_ID, Message_Type and Timestamp, System_ID is a system id,
\* Message_Type is the message type in decimal, and the header copy in the
\* body has the type, timestamp and system id of the envelope header.
C10_EnvelopeAndBodyHeader ==
  (snd.op = "SendIpcMessage" /\ snd.pc \in {"send", "push"}) =>
    LET properties == snd.msg.properties
        header == BodyHeader(snd.msg.data)
    IN /\ DOMAIN properties = {kZeroMQSystemIdProperty, kZeroMQMessageTypeProperty,
                               kZeroMQTimestampProperty}
       /\ properties[kZeroMQSystemIdProperty] \in SystemIds
       /\ properties[kZeroMQMessageTypeProperty] = IntToString(snd.ipc.type)
       /\ header.ok
       /\ header.message_type = snd.ipc.type
       /\ IntToString(header.timestamp_ms) = properties[kZeroMQTimestampProperty]
       /\ header.system_id = properties[kZeroMQSystemIdProperty]

\* The subscriber thread takes the message at the front of its socket.
ReceiveStep == sub_thread = "recv" /\ inbox # <<>> /\ sub_thread' = "loop"

\* The frames at the front of the subscriber socket are those another system
\* published for the given IPC message.
FrontIsPeer(ipc_message) ==
  /\ inbox # <<>>
  /\ Head(inbox).frames = MessageFrames(PeerMessage(ipc_message, OtherSystemId))

AllControlCodes == ControlTypes \cup {kControlUnknown}

\* C11: receiving a Control message that another system sent with control
\* code c appends exactly one control event carrying c to the event queue,
\* for every control code and in every mode.
C11_ControlEvent ==
  [][\A c \in AllControlCodes :
       (ReceiveStep /\ FrontIsPeer(ControlMessage(c))) =>
         event_queue' = Append(event_queue, Event("ControlMessage", EmptyMat, c))]_vars

\* C11, reached: a putter and then a driver control message were received
\* and the event queue holds their two events in that order.
C11_Witness ==
  /\ Len(handled) = 2
  /\ event_queue = <<Event("ControlMessage", EmptyMat, kClubChangeToPutter),
                     Event("ControlMessage", EmptyMat, kClubChangeToDriver)>>

\* C12: receiving a Shutdown message of another system appends exactly one
\* exit event to the event queue, in every system mode.
C12_ShutdownEvent ==
  [][(ReceiveStep /\ FrontIsPeer(NewIpcMessage(kShutdown))) =>
       event_queue' = Append(event_queue, Event("Exit", EmptyMat, 0))]_vars

\* C12, reached: in mode kTest a Shutdown message was dispatched and the
\* event queue holds the one exit event.
C12_Witness ==
  /\ system_mode_ = "kTest"
  /\ Len(handled) = 1
  /\ handled[1].properties = PeerShutdown.properties
  /\ event_queue = <<Event("Exit", EmptyMat, 0)>>

\* The modes in which the process has the camera-2 role.
Camera2Roles == {"kCamera2", "kCamera2TestStandalone", "kRunCam2ProcessForPi1Processing"}

\* C13: receiving a RequestForCameraImage message appends an arm-camera-2
\* event to the event queue when the mode is a camera-2 role, and leaves the
\* event queue as it is in every other mode.
C13_ArmCamera2 ==
  [][(ReceiveStep /\ FrontIsPeer(NewIpcMessage(kRequestForCamera2Image))) =>
       event_queue' = IF system_mode_ \in Camera2Roles
                      THEN Append(event_queue,
                                  Event("ArmCamera2MessageReceived", EmptyMat, 0))
                      ELSE event_queue]_vars

\* C13, reached: the request was received twice in mode
\* kCamera2TestStandalone and there are two arm events.
C13_Witness ==
  /\ system_mode_ = "kCamera2TestStandalone"
  /\ Len(handled) = 2
  /\ event_queue = <<Event("ArmCamera2MessageReceived", EmptyMat, 0),
                     Event("ArmCamera2MessageReceived", EmptyMat, 0)>>

PeerImage == ImageMessage(kCamera2Image, SmallMat)
PeerPreImage == ImageMessage(kCamera2ReturnPreImage, SmallMat)

\* C14 as stated: receiving a CameraImage message of another system appends
\* a camera-2-image-received event carrying the frame, and receiving a
\* CameraPreImage message appends a pre-image-received event.
C14_ImageEventsAsStated ==
  [][/\ (ReceiveStep /\ FrontIsPeer(PeerImage)) =>
          event_queue' = Append(event_queue, Event("Camera2ImageReceived", SmallMat, 0))
     /\ (ReceiveStep /\ FrontIsPeer(PeerPreImage)) =>
          event_queue' = Append(event_queue, Event("Camera2PreImageReceived", SmallMat, 0))
    ]_vars

\* The modes in which the process has the camera-1 role, and the modes in
\* which a received frame is kept in last_received_image_.
Camera1Roles == {"kCamera1", "kCamera1TestStandalone"}
ImageSavingModes ==
  {"kCamera1AutoCalibrate", "kCamera2AutoCalibrate", "kCamera1BallLocation",
   "kCamera2BallLocation"}

\* C14, amended: a CameraImage message of another system appends one
\* camera-2-image-received event carrying the decoded frame when the mode is
\* a camera-1 role and still mode is off; in still mode and in the
\* auto-calibrate and ball-location modes the decoded frame is stored in
\* last_received_image_ and no event is queued; in every other mode nothing
\* is queued.  A CameraPreImage message appends one pre-image-received event
\* carrying the decoded frame when the mode is a camera-1 role and nothing
\* in every other mode.
C14_ImageEventsByMode ==
  [][/\ (ReceiveStep /\ FrontIsPeer(PeerImage)) =>
          /\ event_queue' =
               IF ~camera_still_mode_ /\ system_mode_ \in Camera1Roles
               THEN Append(event_queue, Event("Camera2ImageReceived", SmallMat, 0))
               ELSE event_queue
          /\ last_received_image_' =
               IF camera_still_mode_ \/ system_mode_ \in ImageSavingModes
               THEN SmallMat ELSE last_received_image_
     /\ (ReceiveStep /\ FrontIsPeer(PeerPreImage)) =>
          /\ event_queue' =
               IF system_mode_ \in Camera1Roles
               THEN Append(event_queue, Event("Camera2PreImageReceived", SmallMat, 0))
               ELSE event_queue
          /\ last_received_image_' = last_received_image_
    ]_vars

\* C14, reached: in mode kCamera1 with still mode off an image and then a
\* pre-image were received and their two events, each with the frame, are on
\* the event queue.
C14_Witness ==
  /\ system_mode_ = "kCamera1" /\ ~camera_still_mode_
  /\ Len(handled) = 2
  /\ event_queue = <<Event("Camera2ImageReceived", SmallMat, 0),
                     Event("Camera2PreImageReceived", SmallMat, 0)>>

\* Handler invocation i was for the message another system published for
\* the given IPC message.
HandledPeer(i, ipc_message) ==
  /\ handled[i].data = PeerMessage(ipc_message, OtherSystemId).data
  /\ handled[i].properties = PeerMessage(ipc_message, OtherSystemId).properties

\* C15: for CameraImage, CameraPreImage and RequestForCameraImage the
\* dispatcher reports the message as handled in every mode of the
\* enumeration; only a mode outside the enumeration is reported as failure.
C15_ExhaustiveModes ==
  \A i \in 1..Len(handled) :
    \A ipc_message \in {PeerImage, PeerPreImage, NewIpcMessage(kRequestForCamera2Image)} :
      (HandledPeer(i, ipc_message) /\ system_mode_ \in SystemModes)
        => handled[i].outcome.result

\* The text is a decimal integer: an optional sign and digits only.
IsIntegerText(text) ==
  LET digits == IF text # <<>> /\ text[1] = "-" THEN Tail(text) ELSE text
  IN digits # <<>> /\ \A k \in 1..Len(digits) : IsDigit(digits[k])

\* A header that lacks a required key, or whose Message_Type is no integer,
\* Unknown, or no id of the enumeration.
InvalidHeader(properties) ==
  \/ ~(RequiredKeys \subseteq DOMAIN properties)
  \/ ~IsIntegerText(properties[kZeroMQMessageTypeProperty])
  \/ Stoi(properties[kZeroMQMessageTypeProperty]).val \notin MessageTypes \ {kUnknown}

\* C16: a message with an invalid header that reaches the handler queues no
\* event and the dispatcher reports failure.
C16_InvalidHeaderDropped ==
  \A i \in 1..Len(handled) :
    InvalidHeader(handled[i].properties)
      => handled[i].outcome.events = <<>> /\ ~handled[i].outcome.result

\* C17: receiving a message whose header frame is malformed queues no event.
C17_MalformedHeaderDropped ==
  [][(ReceiveStep /\ Raw(Head(inbox).frames[2]) \in MalformedTexts)
       => event_queue' = event_queue]_vars

\* The detections of dets whose suppressed flag is not set, in their order.
RECURSIVE KeptDetections(_, _)
KeptDetections(dets, flags) ==
  IF dets = <<>> THEN <<>>
  ELSE LET n == Len(dets)
           rest == KeptDetections(SubSeq(dets, 1, n - 1), SubSeq(flags, 1, n - 1))
       IN IF flags[n] THEN rest ELSE Append(rest, dets[n])
SameBox(a, b) == a.bbox = b.bbox
OverlapAbove(a, b) == IOUAbove(a.bbox, b.bbox, nms_threshold)

\* C18: per-class NMS.  After NonMaxSuppression a candidate is suppressed if
\* and only if a kept candidate of the same class standing before it in the
\* sorted list has IoU with it above nms_threshold, and the result is the
\* kept candidates in sorted order.  Hence two candidates of the same class
\* with IoU above the threshold never both survive, and when they are the
\* whole list exactly the one of higher confidence survives; two candidates
\* of different classes never suppress each other, and when they are the
\* whole list both survive even with identical boxes (IoU = 1).
C18_PerClassNms ==
  det_pc = "done" =>
    LET n == Len(detections)
    IN /\ Len(nms_suppressed) = n
       /\ \A j \in 1..n :
            nms_suppressed[j] <=>
              \E i \in 1..(j - 1) :
                /\ ~nms_suppressed[i]
                /\ detections[i].class_id = detections[j].class_id
                /\ OverlapAbove(detections[i], detections[j])
       /\ result = KeptDetections(detections, nms_suppressed)
       /\ \A i, j \in 1..n :
            (i < j /\ detections[i].class_id = detections[j].class_id
                   /\ OverlapAbove(detections[i], detections[j]))
              => (nms_suppressed[i] \/ nms_suppressed[j])
       /\ (n = 2 /\ detections[1].class_id = detections[2].class_id
                 /\ OverlapAbove(detections[1], detections[2]))
            => result = <<detections[1]>>
       /\ (n = 2 /\ detections[1].class_id # detections[2].class_id)
            => result = detections

\* A candidate was suppressed by a kept one of its class, while a candidate
\* of the other class with the very box of the kept one survived beside it;
\* the kept one has the higher confidence.
C18_Witness ==
  /\ det_pc = "done" /\ Len(detections) = 3
  /\ \E i, j, k \in 1..3 :
       /\ i < j /\ ~nms_suppressed[i] /\ nms_suppressed[j]
       /\ detections[i].confidence > detections[j].confidence
       /\ ~nms_suppressed[k] /\ detections[k].class_id # detections[i].class_id
       /\ SameBox(detections[k], detections[i])

\* d put into a list sorted by confidence, behind every candidate of
\* confidence not below its own.
RECURSIVE InsertByConfidence(_, _)
InsertByConfidence(sorted, d) ==
  IF sorted = <<>> THEN <<d>>
  ELSE IF sorted[Len(sorted)].confidence >= d.confidence
       THEN Append(sorted, d)
       ELSE Append(InsertByConfidence(SubSeq(sorted, 1, Len(sorted) - 1), d),
                   sorted[Len(sorted)])
\* The candidates by descending confidence, equal ones in input order.
RECURSIVE InputOrderSort(_)
InputOrderSort(cands) ==
  IF cands = <<>> THEN <<>>
  ELSE InsertByConfidence(InputOrderSort(SubSeq(cands, 1, Len(cands) - 1)),
                          cands[Len(cands)])
\* a is b with some elements left out.
RECURSIVE IsSubList(_, _)
IsSubList(a, b) ==
  IF a = <<>> THEN TRUE
  ELSE IF b = <<>> THEN FALSE
       ELSE IF Head(a) = Head(b) THEN IsSubList(Tail(a), Tail(b))
            ELSE IsSubList(a, Tail(b))
ConfidenceDescending(dets) ==
  \A k \in 1..(Len(dets) - 1) : dets[k].confidence >= dets[k + 1].confidence

\* C19: the detections returned are a sub-list of the decoded candidates
\* ordered by non-increasing confidence with candidates of equal confidence
\* in input (row) order, and that order decides which of two overlapping
\* same-class candidates of equal confidence is kept: the result is what
\* the suppression loops give on the candidates sorted that way.
C19_InputOrderTieBreak ==
  det_pc = "done" =>
    LET ordered == InputOrderSort(DecodeRows(output_tensor, image))
    IN /\ ConfidenceDescending(result)
       /\ IsSubList(result, ordered)
       /\ result = NmsLoop(ordered, 1, [j \in 1..Len(ordered) |-> FALSE], <<>>).result

\* The part of C19 that does not rest on the order of equal confidences:
\* the result is in non-increasing confidence and is a sub-list of the
\* sorted candidates, which are an arrangement of the decoded ones.
C19_DescendingSubList ==
  det_pc = "done" =>
    /\ ConfidenceDescending(result)
    /\ IsSubList(result, detections)
    /\ detections \in SortOutcomes(DecodeRows(output_tensor, image))

\* The candidate that row i of the tensor decodes to.
CandidateOf(i) == DecodeRow(output_tensor[i], image)
\* Twice the box centre, in the units of the box.
CentreX2(bbox) == 2 * bbox.x + bbox.width
CentreY2(bbox) == 2 * bbox.y + bbox.height

\* C20: coordinate mapping.  With sx = cols / input_width and
\* sy = rows / input_height, every row at (cx, cy, w, h) whose best score
\* reaches the confidence threshold has its candidate in the sorted list with
\* x = (cx - w/2) * sx, y = (cy - h/2) * sy, width = w * sx and
\* height = h * sy, so that the box centre is (cx * sx, cy * sy); every
\* candidate and every returned detection is such a box, also where it
\* reaches outside the image.  Horizontal values are numerators over
\* 2 * input_width, vertical ones over 2 * input_height.
C20_CoordinateMapping ==
  det_pc = "done" =>
    /\ \A i \in 1..Len(output_tensor) :
         RowEmits(output_tensor[i]) =>
           LET box == output_tensor[i].box
               bbox == CandidateOf(i).bbox
           IN /\ bbox.x * 2 * input_width = (2 * box.cx - box.w) * image.cols * XDen
              /\ bbox.y * 2 * input_height = (2 * box.cy - box.h) * image.rows * YDen
              /\ bbox.width * input_width = box.w * image.cols * XDen
              /\ bbox.height * input_height = box.h * image.rows * YDen
              /\ CentreX2(bbox) * input_width = 2 * box.cx * image.cols * XDen
              /\ CentreY2(bbox) * input_height = 2 * box.cy * image.rows * YDen
              /\ \E k \in 1..Len(detections) : detections[k] = CandidateOf(i)
    /\ \A k \in 1..Len(detections) :
         \E i \in 1..Len(output_tensor) :
           RowEmits(output_tensor[i]) /\ detections[k] = CandidateOf(i)
    /\ \A k \in 1..Len(result) :
         \E i \in 1..Len(output_tensor) :
           RowEmits(output_tensor[i]) /\ result[k] = CandidateOf(i)

\* A returned box starts left of the image, another ends right of it and
\* below it, and the frame is not of the model's input size.
C20_Witness ==
  /\ det_pc = "done"
  /\ image.cols # input_width /\ image.rows # input_height
  /\ \E k \in 1..Len(result) : result[k].bbox.x < 0
  /\ \E k \in 1..Len(result) :
       /\ result[k].bbox.x + result[k].bbox.width > image.cols * XDen
       /\ result[k].bbox.y + result[k].bbox.height > image.rows * YDen

\* Element of plane c at row h and column w of the tensor, all from 0.
PlaneElement(c, h, w) ==
  input_data[c * resized.height * resized.width + h * resized.width + w + 1]
\* The pixel at row h and column w of the resized frame: b, g, r.
PixelAt(h, w) == resized.pixels[h * resized.width + w + 1]

\* C21: the scalar path writes planar RGB.  After PreprocessImageStandard,
\* for every pixel (h, w) of the resized frame, plane 0 holds its normalised
\* R (source channel 2), plane 1 its G (source channel 1) and plane 2 its B
\* (source channel 0).
C21_PlanarRGB ==
  (det_pc = "preprocessed" /\ ~use_neon_preprocessing) =>
    \A h \in 0..(resized.height - 1), w \in 0..(resized.width - 1), c \in 0..2 :
      /\ PlaneElement(c, h, w).written
      /\ PlaneElement(c, h, w).value = Normalised(PixelAt(h, w)[3 - c])

\* What the scalar path does write: every element, plane c from source
\* channel c, which is planar BGR.
C21_PlanarBGR ==
  (det_pc = "preprocessed" /\ ~use_neon_preprocessing) =>
    \A h \in 0..(resized.height - 1), w \in 0..(resized.width - 1), c \in 0..2 :
      /\ PlaneElement(c, h, w).written
      /\ PlaneElement(c, h, w).value = Normalised(PixelAt(h, w)[c + 1])

\* C22: preprocessing equivalence.  After the accelerated path every element
\* of the tensor has been written and holds the value the scalar path writes
\* at the same index for the same frame.
C22_PathsAgree ==
  (det_pc = "preprocessed" /\ use_neon_preprocessing) =>
    LET scalar == PreprocessImageStandardLoops(resized, input_data)
    IN \A k \in 1..Len(input_data) :
         input_data[k].written /\ input_data[k].value = scalar[k].value

\* Every element the accelerated path wrote holds the channel planar RGB
\* asks for.
C22_NeonWritesRGB ==
  (det_pc = "preprocessed" /\ use_neon_preprocessing) =>
    \A h \in 0..(resized.height - 1), w \in 0..(resized.width - 1), c \in 0..2 :
      PlaneElement(c, h, w).written =>
        PlaneElement(c, h, w).value = Normalised(PixelAt(h, w)[3 - c])

\* Thread t is back from a call of Detect in which a step failed.
FailedCall(t) == det_threads[t].pc = "idle" /\ det_threads[t].failure # "none"

\* C23: Detect's failure policy.  Whenever a call of Detect has failed
\* (empty frame, frame without 3 channels, no session, a fault of the
\* forward pass, no or invalid output), the caller got an empty detection
\* list, no exception, and the metrics object it passed has been written.
C23_FailurePolicy ==
  \A t \in DetThreads :
    FailedCall(t) =>
      det_threads[t].ret = "empty" /\ det_threads[t].metrics # "untouched"

\* The part of the failure policy Detect keeps: every failure it tests for
\* itself ends in an empty detection list.
C23_EmptyListUnlessThrown ==
  \A t \in DetThreads :
    (FailedCall(t) /\ det_threads[t].failure # "throws") => det_threads[t].ret = "empty"

\* The threads whose call is using the pool's input buffer.
ArenaUsers == { t \in DetThreads : det_threads[t].buffer = "arena" }

\* C24: arena lease exclusivity.  At any time at most one thread is using
\* the pool's input buffer, and a thread inside Detect that did not get it
\* has its own buffer.
C24_LeaseExclusive ==
  /\ Cardinality(ArenaUsers) <= 1
  /\ \A t \in DetThreads :
       det_threads[t].pc = "run" => det_threads[t].buffer \in {"arena", "fallback"}

\* C25: lease release.  Whenever a call of Detect that leased the pool's
\* input buffer returns, on any path, the lease it took is no longer held.
C25_LeaseReleased ==
  [][\A t \in DetThreads :
       (det_threads[t].pc # "idle" /\ det_threads'[t].pc = "idle" /\ det_threads'[t].leased)
         => memory_pool_'.lessee # t]_vars

\* The path on which the lease is released: a call that returns detections.
C25_ReleasedOnSuccess ==
  [][\A t \in DetThreads :
       (det_threads[t].pc # "idle" /\ det_threads'[t].pc = "idle" /\ det_threads'[t].leased
          /\ det_threads'[t].ret = "detections")
         => memory_pool_'.lessee # t]_vars

AllIdle == \A t \in DetThreads : det_threads[t].pc = "idle"
MeanOf(times) == IF times = <<>> THEN <<0, 1>> ELSE Fraction(SumOf(times), Len(times))

\* C30: the statistics.  When no call is under way and n calls completed
\* their inference, total_inferences_ is n and avg_inference_time_ms_ is the
\* arithmetic mean of the n inference times, with or without a metrics
\* object; failed calls count for neither.
C30_RunningMean ==
  AllIdle =>
    /\ total_inferences_ = Len(inference_times)
    /\ avg_inference_time_ms_ = MeanOf(inference_times)

\* The counter alone.
C30_CounterOnly == AllIdle => total_inferences_ = Len(inference_times)

\* The value of a lowercase hexadecimal digit, 16 for any other character.
LowerHexValue(ch) ==
  IF \E i \in 1..16 : HexDigits[i] = ch
  THEN (CHOOSE i \in 1..16 : HexDigits[i] = ch) - 1
  ELSE 16
ReplyHead ==
  <<"{", "\"", "T", "y", "p", "e", "\"", ":", "\"", "C", "h", "a", "l", "l", "e", "n", "g", "e", "\"", ",", "\"", "D", "e", "v", "e", "l", "o", "p", "e", "r", "\"", ":", "\"">>
    \o GetID \o
  <<"\"", ",", "\"", "H", "a", "s", "h", "\"", ":", "\"">>
ReplyTail == <<"\"", "}">>
\* ProcessJson has returned from a Handshake or a Challenge message.
ChallengeAnswered ==
  /\ snd.pc = "e6_done" /\ snd.op = "ProcessJson"
  /\ PtGet(snd.pt, "Type", "") \in {"Handshake", "Challenge"}

\* C26: simulator handshake.  For a Handshake message and for a Challenge
\* message, ProcessJson leaves a reply that is fixed by the Challenge field
\* alone: the JSON object with Type "Challenge", the developer id, and a Hash
\* of two lowercase hexadecimal digits for each byte of the SHA-256 digest of
\* the challenge followed by the shared key.
C26_ChallengeReply ==
  ChallengeAnswered =>
    LET digest == SHA256(PtGet(snd.pt, "Challenge", <<>>) \o GetKey)
        reply == snd.response
        at == Len(ReplyHead)
    IN /\ snd.ret = "true"
       /\ Len(reply) = at + 2 * SHA256_DIGEST_LENGTH + Len(ReplyTail)
       /\ SubSeq(reply, 1, at) = ReplyHead
       /\ SubSeq(reply, Len(reply) - 1, Len(reply)) = ReplyTail
       /\ \A i \in 1..SHA256_DIGEST_LENGTH :
            /\ LowerHexValue(reply[at + 2 * i - 1]) < 16
            /\ LowerHexValue(reply[at + 2 * i]) < 16
            /\ 16 * LowerHexValue(reply[at + 2 * i - 1]) + LowerHexValue(reply[at + 2 * i])
                 = digest[i]

\* A Handshake carrying a challenge was answered, and a byte of its digest
\* is below 16.
C26_Witness ==
  /\ ChallengeAnswered
  /\ snd.pt.Type = "Handshake" /\ PtGet(snd.pt, "Challenge", <<>>) # <<>>
  /\ \E i \in 1..SHA256_DIGEST_LENGTH : SHA256(snd.pt.Challenge \o GetKey)[i] < 16

Occurs(seq, x) == \E k \in 1..Len(seq) : seq[k] = x
\* The client's last call was Unsubscribe, and it has returned.
Unsubscribed == ctl.pc = "idle" /\ ctl.op = "Unsubscribe"

\* C27: after Unsubscribe(f) has returned, and until the client's next call,
\* f is not among the recorded filters and is no subscription of the socket,
\* whatever calls of Subscribe, Unsubscribe and Start came before.
C27_UnsubscribeRemoves ==
  Unsubscribed =>
    /\ ~Occurs(topic_filters_, ctl.topic_filter)
    /\ ~Occurs(sub_subscribed, ctl.topic_filter)

\* What holds when the filter was subscribed at most once: it is gone from
\* the list and from the socket.
C27_RemovesOne ==
  [][\A f \in ClientFilters :
       (ctl'.pc = "idle" /\ ctl'.op = "Unsubscribe" /\ ctl.op # "Unsubscribe"
          /\ ctl'.topic_filter = f
          /\ Cardinality({k \in 1..Len(topic_filters_) : topic_filters_[k] = f}) <= 1
          /\ Cardinality({k \in 1..Len(sub_subscribed) : sub_subscribed[k] = f}) <= 1)
         => (~Occurs(topic_filters_', f) /\ ~Occurs(sub_subscribed', f))]_vars

(***************************************************************************)
(* Lifetime of the decoded message object.                                 *)
(***************************************************************************)
\* C28: every message object created while decoding a received message is
\* released exactly once before the dispatcher returns, on every path.
C28_ReleasedOnce ==
  \A i \in 1..Len(handled) :
    handled[i].outcome.released = handled[i].outcome.created

\* C28, the part the code keeps: an object is never released twice, and a
\* message a handler accepted was created once and released once.
C28_ReleasedWhenDispatched ==
  \A i \in 1..Len(handled) :
    LET o == handled[i].outcome
    IN /\ o.released <= o.created /\ o.created <= 1
       /\ (o.result \/ o.events # <<>> \/ o.save) => o.created = 1 /\ o.released = 1

(***************************************************************************)
(* Decoding of the rows of the output tensor.                              *)
(***************************************************************************)
\* The highest class score of a row, and the classes holding it (from 0).
HighestScore(row) ==
  CHOOSE s \in {row.scores[c] : c \in 1..num_classes} :
    \A c \in 1..num_classes : row.scores[c] <= s
HoldersOf(row) == {c \in 0..(num_classes - 1) : row.scores[c + 1] = HighestScore(row)}
LowestHolder(row) == CHOOSE c \in HoldersOf(row) : \A b \in HoldersOf(row) : c <= b
\* The rows of the tensor whose highest score reaches the threshold.
EmittingRows ==
  {i \in 1..num_predictions : HighestScore(output_tensor[i]) >= confidence_threshold}
\* The candidate the decoding rule gives for row i.
RuleCandidate(i) ==
  [bbox |-> DecodeBox(output_tensor[i].box, image),
   confidence |-> HighestScore(output_tensor[i]),
   class_id |-> LowestHolder(output_tensor[i])]

\* C29: decoding.  For each row of the tensor PostprocessYOLO emits a
\* candidate if and only if the row's highest class score is at least
\* confidence_threshold: the candidates handed to the suppression are, each
\* as often as it occurs, those of the rows that reach the threshold.  A
\* candidate's confidence is the row's highest score and its class_id is the
\* lowest index of a class holding that score, always within
\* 0..num_classes - 1; the same holds of every returned detection.
C29_Decoding ==
  det_pc = "done" =>
    /\ Len(detections) = Cardinality(EmittingRows)
    /\ \A i \in EmittingRows :
         Cardinality({k \in 1..Len(detections) : detections[k] = RuleCandidate(i)})
           = Cardinality({j \in EmittingRows : RuleCandidate(j) = RuleCandidate(i)})
    /\ \A k \in 1..Len(detections) :
         /\ detections[k].class_id \in 0..(num_classes - 1)
         /\ \E i \in EmittingRows : detections[k] = RuleCandidate(i)
    /\ \A k \in 1..Len(result) :
         /\ result[k].class_id \in 0..(num_classes - 1)
         /\ \E i \in EmittingRows : result[k] = RuleCandidate(i)

\* A tensor with a row below the threshold, a row whose classes tie at a
\* score above it, and a row whose last class is the best, after decoding.
C29_Witness ==
  /\ det_pc = "done"
  /\ EmittingRows # 1..num_predictions
  /\ \E i \in EmittingRows : Cardinality(HoldersOf(output_tensor[i])) > 1
  /\ \E i \in EmittingRows : LowestHolder(output_tensor[i]) = num_classes - 1

(***************************************************************************)
(* The header frame, built and parsed.                                     *)
(***************************************************************************)
\* C31: header round trip.  For every property map whose keys and values
\* hold no double quote, parsing the header frame the publisher builds from
\* the map gives the same map: the same keys, each with the same value.
\* This includes the empty map, empty keys and values, and values holding
\* commas, colons, braces or spaces.
C31_HeaderRoundTrip ==
  snd.pc = "header_parsed" => handled[1].properties = snd.msg.properties

\* A parsed header of two entries, one with the empty key, one with an empty
\* value, one value holding a comma and a closing brace.
C31_Witness ==
  /\ snd.pc = "header_parsed"
  /\ DOMAIN snd.msg.properties = {<<>>, <<",">>}
  /\ snd.msg.properties[<<>>] = <<",", "}">>
  /\ snd.msg.properties[<<",">>] = <<>>
  /\ handled[1].properties = snd.msg.properties

\* The parse of an empty map's frame.
C31_WitnessEmpty ==
  /\ snd.pc = "header_parsed"
  /\ snd.msg.properties = EmptyMap /\ wire[1].frame = TextFrame(<<"{", "}">>)

(***************************************************************************)
(* Accesses to the subscriber's filter list.                               *)
(***************************************************************************)
\* C32: the control thread is never inside its access to topic_filters_
\* (the push_back of Subscribe, the find and erase of Unsubscribe) while the
\* subscriber thread reads the list to set the filters on its socket.
C32_NoConcurrentAccess == ~(InListAccess /\ sub_thread = "filters")

\* What the code does keep: before Start() has launched the thread, nothing
\* but the control thread touches the list.
C32_AloneBeforeStart ==
  (InListAccess /\ ~sub_context) => sub_thread = "none"

(***************************************************************************)
(* GsE6Response: messages it does not answer.                              *)
(***************************************************************************)
E6Types ==
  {"Handshake", "Challenge", "Authentication", "SimCommand", "ACK", "Warning",
   "ShotError", "ShotComplete"}
E6SubTypes == {"Ping", "Arm", "Disarm", "EnvironmentDataModified", "PlayerDataModified"}
\* Text that read_json raises on.
Unparsable(pt) == pt = [garbage |-> TRUE]
\* A parsed message without Type, or with a Type that is none of the known.
BadType(pt) == ~Unparsable(pt) /\ PtGet(pt, "Type", "") \notin E6Types
\* A SimCommand without SubType, or with a SubType that is none of the known.
BadSubType(pt) ==
  /\ ~Unparsable(pt)
  /\ PtGet(pt, "Type", "") = "SimCommand"
  /\ PtGet(pt, "SubType", "") \notin E6SubTypes

\* C33: leniency.  For a message with an unknown or missing Type, an unknown
\* SimCommand SubType, or text that fails to parse, ProcessJson leaves the
\* reply string empty or as it was on entry, changes no armed flag and
\* queues no event; it returns false for a missing or unknown Type and true
\* for unparsable text.
C33_Leniency ==
  [][(snd.pc = "e6_message" /\ snd'.pc = "e6_done"
        /\ (Unparsable(snd.pt) \/ BadType(snd.pt) \/ BadSubType(snd.pt)))
       => /\ snd'.response \in {<<>>, snd.response}
          /\ snd'.armed = snd.armed
          /\ event_queue' = event_queue
          /\ BadType(snd.pt) => snd'.ret = "false"
          /\ Unparsable(snd.pt) => snd'.ret = "true"]_vars

\* A SimCommand of unknown SubType has been processed while the system was
\* armed and the caller's reply string held text.
C33_Witness ==
  /\ snd.pc = "e6_done"
  /\ BadSubType(snd.pt) /\ PtGet(snd.pt, "SubType", "") = "Bogus"
  /\ snd.response = <<"x">> /\ snd.armed /\ event_queue = <<>>

\* Unparsable text and a message of unknown Type have been processed.
C33_WitnessUnparsable == snd.pc = "e6_done" /\ Unparsable(snd.pt) /\ snd.ret = "true"
C33_WitnessBadType ==
  snd.pc = "e6_done" /\ BadType(snd.pt) /\ snd.ret = "false" /\ snd.response = <<"x">>

(***************************************************************************)
(* Delivery of accepted messages to the socket.                            *)
(***************************************************************************)
\* The message of the n-th accepted SendMessage call waits in the send queue.
InQueue(n) == \E k \in 1..Len(message_queue_) : message_queue_[k].seq = n

\* C34: delivery to the socket.  Every message for which SendMessage
\* returned true on a running publisher is eventually taken from the send
\* queue by the publisher thread, unless Stop() is called first.
C34_EventuallySent ==
  \A n \in 1..MaxCalls : InQueue(n) ~> (~InQueue(n) \/ pub_should_stop)

\* What holds: a message that waits while the publisher thread is in its
\* loop is eventually taken, unless Stop() is called first, also after
\* sends that raised.
C34_SentOnceBound ==
  \A n \in 1..MaxCalls :
    (InQueue(n) /\ pub_thread = "loop") ~> (~InQueue(n) \/ pub_should_stop)

(***************************************************************************)
(* SendIpcMessage while ShutdownIPCSystem runs.                            *)
(***************************************************************************)
\* SendIpcMessage is past its test of initialized_ and publisher_ and has
\* its call of publisher_->SendMessage before it or under way.
SendCallPending == snd.op = "SendIpcMessage" /\ snd.pc \in {"send", "push"}

\* C35: SendIpcMessage never calls SendMessage on a publisher that
\* ShutdownIPCSystem has stopped and destroyed: no step of the call is taken
\* once publisher_ is reset, in any interleaving, and the process never dies
\* of it.
C35_NoSendOnDestroyedPublisher ==
  [][~(SendCallPending /\ ~publisher_ /\ snd' # snd) /\ ~crashed']_vars

\* What holds: a SendIpcMessage that starts after ShutdownIPCSystem has
\* cleared initialized_ or reset publisher_ returns false without a call.
C35_RefusedAfterShutdown ==
  [][(snd.pc = "idle" /\ snd'.op = "SendIpcMessage" /\ snd' # snd
        /\ (~initialized_ \/ ~publisher_))
       => snd' = SndReturned("SendIpcMessage", "false")]_vars

\* A publisher thread or a subscriber thread exists and has not ended.
PubThreadRunning == pub_thread \in {"start", "loop"}
SubThreadRunning == sub_thread \in {"start", "loop", "recv"}

InitReturnedFalse == ctl = Returned("InitializeIPCSystem", "false")

\* C36: whenever InitializeIPCSystem has returned false, initialized_ is
\* false and neither a publisher thread nor a subscriber thread is running.
C36_NothingRunningAfterFalse ==
  InitReturnedFalse => ~initialized_ /\ ~PubThreadRunning /\ ~SubThreadRunning

\* The part that holds: after a false return initialized_ is false and no
\* subscriber thread is running, and a false return made without an exception
\* (a Start() that returned false) leaves no publisher thread running.
C36_FlagClearAfterFalse ==
  InitReturnedFalse => ~initialized_ /\ ~SubThreadRunning /\ (PubThreadRunning => sub_context /\ ~sub_running /\ pub_running)

(***************************************************************************)
(* The send queue across Stop() and a later Start().                       *)
(***************************************************************************)
\* C37: a message that is still in the send queue when Stop() is called is
\* never put on the socket afterwards, also not after a later Start(): no
\* step of the publisher thread sends an entry a Stop() found waiting.
C37_QueuedAtStopNeverSent ==
  [][(wire' # wire /\ message_queue_ # <<>>) => ~Head(message_queue_).at_stop]_vars

\* The part that holds: from the moment Stop() waits for the thread until the
\* next Start() launches a new one, nothing is put on the socket and the
\* queue is not emptied.
C37_NothingSentWhileStopped ==
  [][(pub_should_stop /\ pub_should_stop')
       => wire' = wire /\ Len(message_queue_') >= Len(message_queue_)]_vars

(***************************************************************************)
(* The reads of PostprocessYOLO against the size of the output.            *)
(***************************************************************************)
\* Detect has handed the output to PostprocessYOLO.
OutputAccepted == det_pc \in {"read_rows", "done", "fault"}

\* C38: for every output tensor Detect accepts, the highest index
\* PostprocessYOLO reads is below output_size.
C38_ReadsBelowOutputSize ==
  OutputAccepted => HighestIndexRead < OutputSize(output_tensor)

\* The part that holds: Detect refuses the outputs of size zero and only
\* those, and on an output of at least num_predictions rows the detections
\* are those of its first num_predictions rows and no read faults.
C38_OnlyEmptyRefused ==
  /\ det_pc = "rejected" => OutputSize(output_tensor) = 0
  /\ OutputAccepted => OutputSize(output_tensor) > 0
  /\ (OutputAccepted /\ Len(output_tensor) >= num_predictions) =>
       /\ det_pc # "fault"
       /\ det_pc = "done" =>
            detections \in SortOutcomes(DecodeRows(SubSeq(output_tensor, 1, num_predictions), image))

(***************************************************************************)
(* What PreprocessBatch has waited for when it returns.                    *)
(***************************************************************************)
\* A worker holds a task it has taken and not finished.
WorkerBusy == \E w \in 1..Len(workers_) : workers_[w].pc # "wait"

\* C39: when PreprocessBatch returns, every image's slot of the output
\* buffer is completely written and no worker is still working on a task
\* of the batch.
C39_BatchCompleteOnReturn ==
  batch_pc = "returned" =>
    /\ \A i \in 1..Len(output_buffer) : output_buffer[i] = "done"
    /\ ~WorkerBusy

\* The part that holds: when PreprocessBatch returns, every task of the
\* batch has been taken off the queue, so each slot is done or in the hands
\* of a worker.
C39_BatchTakenOnReturn ==
  batch_pc = "returned" =>
    /\ tasks_ = <<>>
    /\ \A i \in 1..Len(output_buffer) :
         \/ output_buffer[i] = "done"
         \/ \E w \in 1..Len(workers_) : workers_[w].pc # "wait" /\ workers_[w].task = i

(***************************************************************************)
(* The subscriptions of the socket against the recorded filters.           *)
(***************************************************************************)
Elements(seq) == {seq[k] : k \in 1..Len(seq)}

\* The socket is connected, its first subscriptions are made and no call of
\* the client is under way.
SubscriptionsSettled == Connected /\ ctl.pc = "idle"

\* C40: after any sequence of Subscribe, Unsubscribe and Start calls, the
\* filters active on the socket are the recorded filters, and the empty
\* filter, which subscribes to all topics, is active only while no filter is
\* recorded.
C40_SocketFollowsList ==
  SubscriptionsSettled =>
    /\ Elements(sub_subscribed) \ {NoString} = Elements(topic_filters_)
    /\ Occurs(sub_subscribed, NoString) => topic_filters_ = <<>>

\* The part that holds: at the moment SubscriberThread has connected, the
\* socket's subscriptions are the recorded filters, or the empty filter alone
\* when none is recorded.
C40_SocketFollowsListAtConnect ==
  [][(sub_thread = "start" /\ sub_thread' = "loop") =>
       Elements(sub_subscribed') =
         IF topic_filters_ = <<>> THEN {NoString} ELSE Elements(topic_filters_)]_vars

====
